---- MODULE Spec2Model ----
(***************************************************************************)
(* A model of clipsai's trailer service.                                   *)
(*                                                                         *)
(* Spec        one call of TrailerGenerator.generate_basic_trailer         *)
(*             (src/clipsai/trailer/trailer.py)                            *)
(* SpecJob     one job, process_trailer_generation_task (src/app/main.py), *)
(*             and the generate_basic_trailer call it makes                *)
(* SpecParse   one call of parse_s3_url (src/app/s3_utils.py)              *)
(* SpecS3      one call of download_s3_file or of upload_file_to_s3        *)
(* SpecClip    one method call on a Clip (src/clipsai/clip/clip.py)        *)
(* SpecService requests to create_trailer and the jobs they schedule,      *)
(*             interleaved, over one filesystem and one bucket             *)
(* SpecLoop    the same requests and jobs on the one event loop of the     *)
(*             server process uvicorn.run starts                           *)
(* SpecJobLive SpecJob with the fairness that lets a job run on            *)
(*                                                                         *)
(* The collaborators (VideoFile, FileSystemManager, os, shutil, boto3,     *)
(* Transcriber, ClipFinder, MediaEditor) are the environment: each call to *)
(* one of them is a step whose outcome (a returned value or a raised       *)
(* exception) is chosen nondeterministically.                              *)
(* Scores and times are floats in the code; the pipeline uses only their   *)
(* order, for which the model takes small naturals, while the Clip methods *)
(* use float equality and truth, for which the model keeps NaN apart.      *)
(* The pipeline never compares two clips, so the clips of a discovered     *)
(* list are labelled by their position in it (through their time range).   *)
(***************************************************************************)
EXTENDS Integers, Sequences, FiniteSets, TLC

\* ---- bounds of the model ------------------------------------------------
MaxClips == 3      \* longest list ClipFinder.find_clips returns
MaxScore == 2      \* clip scores range over 1..MaxScore
MaxNum   == 3      \* num_clips_to_select ranges over -1..MaxNum
MaxUrlLen == 7     \* longest locator given to parse_s3_url, in tokens
MaxField == 1      \* the numbers in a Clip's fields range over 0..MaxField
MaxRequests == 2   \* requests the service receives

VARIABLES
    pc,              \* position of the call inside generate_basic_trailer
    srcExists,       \* input: source_video_path names an existing file
    outParentOk,     \* input: parent directory of output_trailer_path is valid
    num_clips_to_select, \* input
    transcription,   \* what Transcriber.transcribe returned ("unset" before)
    findReturn,      \* kind of value ClipFinder.find_clips returned
    found,           \* the list find_clips returned, in discovery order
    clips,           \* the local `clips` after clips.sort(...)
    selected_clips,  \* the local `selected_clips`
    i,               \* loop index of `for i, clip_data in enumerate(...)`
    trimmed_clip_files, \* the local `trimmed_clip_files`
    trimCalls,       \* log of MediaEditor.trim calls (arguments, returned value)
    concatCalls,     \* log of MediaEditor.concatenate calls
    transcribeCalls, \* number of Transcriber.transcribe calls
    findCalls,       \* log of ClipFinder.find_clips calls: the transcription given
    mkdirCalls,      \* number of os.makedirs(temp_dir_path) calls
    wsCreated,       \* os.makedirs(temp_dir_path) returned normally
    wsExists,        \* the directory temp_dir_path exists on disk
    deleteCalls,     \* number of FileSystemManager.delete_dir(temp_dir_path) calls
    deleteFailed,    \* the delete_dir call raised
    failure,         \* which error/warning branch ended the run ("none" if none)
    result,          \* returned value: "unset", "None" or "VideoFile"
    raised,          \* an exception left generate_basic_trailer
    wsFiles,         \* indices of the clip_<i>.mp4 files present in temp_dir_path
    outFile,         \* the file at output_trailer_path: "absent", "partial" or "written"
    \* -- state of process_trailer_generation_task (src/app/main.py) --
    jpc,             \* position of the job ("none": no job, the call is direct)
    jobDirExists,    \* the directory base_processing_dir exists on disk
    downloadCalls,   \* number of download_s3_file calls
    downloadResult,  \* what download_s3_file returned ("unset" before)
    pipelineCalls,   \* number of generate_basic_trailer calls made by the job
    existsCheck,     \* what os.path.exists(final_trailer_path) gave at line 117
    uploadCalls,     \* log of upload_file_to_s3 calls (their arguments)
    uploadResult,    \* what upload_file_to_s3 returned ("unset" before)
    published,       \* objects in the store: set of [bucket, key]
    removeCalls,     \* number of os.remove(final_trailer_path) calls
    removeFailed,    \* os.remove raised OSError
    rmtreeCalls,     \* number of shutil.rmtree(base_processing_dir) calls
    rmtreeFailed,    \* shutil.rmtree raised
    jobCaught,       \* the `except Exception` clause of the job ran
    jobRaised,       \* an exception left process_trailer_generation_task
    \* -- one call of parse_s3_url (src/app/s3_utils.py) --
    s3_url,          \* input: the locator, a sequence of tokens
    parsed,          \* what parse_s3_url returned (NotParsed before)
    \* -- one call of download_s3_file or upload_file_to_s3 --
    s3Func,          \* the function called: "none", "download" or "upload"
    s3pc,            \* position of the call inside it
    localFileExists, \* input of upload: local_file_path names an existing file
    bucket_name,     \* input of upload
    s3_key,          \* input of upload
    uuidCount,       \* number of uuid.uuid4() values drawn so far
    madeDirs,        \* the directories os.makedirs created
    clientCalls,     \* number of boto3.client("s3") calls
    storeCalls,      \* log of the requests sent to the store
    s3Return,        \* how the call ended (S3Running before)
    \* -- one method call on a Clip (src/clipsai/clip/clip.py) --
    clipSelf,        \* the Clip the method is called on (NoObject if none)
    clipCall,        \* the call made: method, other operand, returned value
    \* -- the service (src/app/main.py): requests and the jobs they schedule --
    requests,        \* the locators of the requests received, in order
    responses,       \* what each request was answered, in order
    tasks,           \* the scheduled jobs, in order: one record per job
    uuid4Count,      \* how many times uuid.uuid4() has been called
    fs,              \* the paths that exist on the local filesystem
    store            \* the keys published in the upload bucket

vars == <<pc, srcExists, outParentOk, num_clips_to_select, transcription,
          findReturn, found, clips, selected_clips, i, trimmed_clip_files,
          trimCalls, concatCalls, transcribeCalls, findCalls, mkdirCalls,
          wsCreated, wsExists, deleteCalls, deleteFailed, failure, result, raised,
          wsFiles, outFile,
          jpc, jobDirExists, downloadCalls, downloadResult, pipelineCalls,
          existsCheck, uploadCalls, uploadResult, published, removeCalls,
          removeFailed, rmtreeCalls, rmtreeFailed, jobCaught, jobRaised,
          s3_url, parsed,
          s3Func, s3pc, localFileExists, bucket_name, s3_key, uuidCount,
          madeDirs, clientCalls, storeCalls, s3Return,
          clipSelf, clipCall,
          requests, responses, tasks, uuid4Count, fs, store>>

\* the variables of generate_basic_trailer other than pc and outFile
pipeState == <<srcExists, outParentOk, num_clips_to_select, transcription,
               findReturn, found, clips, selected_clips, i, trimmed_clip_files,
               trimCalls, concatCalls, transcribeCalls, findCalls, mkdirCalls,
               wsCreated, wsExists, deleteCalls, deleteFailed, failure, result,
               raised, wsFiles>>

\* the variables of the job
jobVars == <<jpc, jobDirExists, downloadCalls, downloadResult, pipelineCalls,
             existsCheck, uploadCalls, uploadResult, published, removeCalls,
             removeFailed, rmtreeCalls, rmtreeFailed, jobCaught, jobRaised>>

\* the variables of one job and of the generate_basic_trailer call it makes
progVars == <<pc, outFile, pipeState, jobVars>>

\* the variables of one call of parse_s3_url
parseVars == <<s3_url, parsed>>

\* the variables of one call of download_s3_file or upload_file_to_s3, other
\* than the locator and its parse
s3Vars == <<s3Func, s3pc, localFileExists, bucket_name, s3_key, uuidCount,
            madeDirs, clientCalls, storeCalls, s3Return>>

\* the variables of one method call on a Clip
clipVars == <<clipSelf, clipCall>>

\* the variables of the service
svcVars == <<requests, responses, tasks, uuid4Count, fs, store>>

\* the variables of the functions that are modelled on their own and of the
\* service
libVars == <<parseVars, s3Vars, clipVars, svcVars>>

\* ---- values -------------------------------------------------------------

\* Clip(start_time, end_time, start_char, end_char, score)
Clip(st, et, sc, ec, s) ==
    [start_time |-> st, end_time |-> et, start_char |-> sc, end_char |-> ec,
     score |-> s]

\* The lists ClipFinder.find_clips may return: up to MaxClips clips with any
\* scores.  The clips of one list are told apart by their time range: the
\* j-th discovered clip runs from second j-1 to second j and covers the
\* characters 10(j-1) .. 10(j-1)+5, so the first one is a falsy Clip.
DiscoveredLists ==
    UNION { { [j \in 1..m |-> Clip(j - 1, j, 10 * (j - 1), 10 * (j - 1) + 5, sc[j])] :
                sc \in [1..m -> 1..MaxScore] } : m \in 0..MaxClips }

NumChoices == (0 - 1)..MaxNum

\* the default of the parameter num_clips_to_select, which the job relies on
DefaultNumClips == 5

\* str(uuid.uuid4()) of create_trailer: the id of the one job of a behaviour
ProcessingId == "processing_id"

\* f"{processing_id}_trailer.mp4"
TrailerFilename(id) == [stem |-> id, suffix |-> "_trailer.mp4"]

\* a variant of the key without the job's directory
S3TrailerKeyFlat(id) == [prefix |-> "trailers", dir |-> "", name |-> TrailerFilename(id)]

\* f"trailers/{processing_id}/{os.path.basename(final_trailer_path)}"
S3TrailerKey(id) == [prefix |-> "trailers", dir |-> id, name |-> TrailerFilename(id)]

\* settings.S3_UPLOAD_BUCKET
UploadBucket == "S3_UPLOAD_BUCKET"

Min(a, b) == IF a <= b THEN a ELSE b

\* os.path.join(temp_dir_path, f"clip_{i}.mp4"): the path is named by its index
ClipPath(idx) == [dir |-> "temp_dir_path", name |-> idx]

\* the TemporalMediaFile MediaEditor.trim returns for a destination path
MediaHandle(path) == [kind |-> "TemporalMediaFile", path |-> path]

\* what a trim call that produced no media file hands back: None, an object
\* that is not a TemporalMediaFile, or nothing because it raised
NoHandle == [kind |-> "None", path |-> ClipPath(0 - 1)]
WrongHandle == [kind |-> "other", path |-> ClipPath(0 - 1)]
RaisedNoHandle == [kind |-> "raised", path |-> ClipPath(0 - 1)]

\* ---- sorting and selection ------------------------------------------------

\* an unstable variant: x goes in front of the elements of equal score
InsertDescUnstable(sorted, x) ==
    LET k == Cardinality({ j \in 1..Len(sorted) : sorted[j].score > x.score })
    IN SubSeq(sorted, 1, k) \o <<x>> \o SubSeq(sorted, k + 1, Len(sorted))

\* One insertion of a stable descending sort: x goes after every element
\* whose score is >= its own.
InsertDesc(sorted, x) ==
    LET k == Cardinality({ j \in 1..Len(sorted) : sorted[j].score >= x.score })
    IN SubSeq(sorted, 1, k) \o <<x>> \o SubSeq(sorted, k + 1, Len(sorted))

RECURSIVE SortFrom(_, _)
SortFrom(acc, rest) ==
    IF rest = <<>> THEN acc
    ELSE SortFrom(InsertDesc(acc, Head(rest)), Tail(rest))

\* clips.sort(key=lambda clip: clip.score, reverse=True): Python's sort is
\* stable, and reverse=True keeps the original order of equal keys.
SortByScoreDesc(s) == SortFrom(<<>>, s)

\* a variant that slices for every n: clips[:min(n, len(clips))] with n <= 0
\* read as an empty prefix
SelectClipsAlwaysSlice(sortedClips, n) ==
    IF n > 0
    THEN SubSeq(sortedClips, 1, Min(n, Len(sortedClips)))
    ELSE <<>>

\* the selection of step 4
SelectClips(sortedClips, n) ==
    IF n > 0
    THEN SubSeq(sortedClips, 1, Min(n, Len(sortedClips)))
    ELSE sortedClips

\* ---- initial state --------------------------------------------------------

\* the job variables before a job has done anything
JobFresh ==
    /\ jobDirExists = FALSE
    /\ downloadCalls = 0
    /\ downloadResult = "unset"
    /\ pipelineCalls = 0
    /\ existsCheck = "unset"
    /\ uploadCalls = <<>>
    /\ uploadResult = "unset"
    /\ published = {}
    /\ removeCalls = 0
    /\ removeFailed = FALSE
    /\ rmtreeCalls = 0
    /\ rmtreeFailed = FALSE
    /\ jobCaught = FALSE
    /\ jobRaised = FALSE

\* generate_basic_trailer is called directly, not by a job
NoJob == jpc = "none" /\ JobFresh

\* before a call of parse_s3_url returns
NotParsed == [kind |-> "unset", bucket_name |-> <<>>, key |-> <<>>]

\* no path
NoPath == [dir |-> 0, name |-> <<>>, generated |-> 0]

\* a call of download_s3_file or upload_file_to_s3 that has not ended
S3Running == [kind |-> "unset", path |-> NoPath, url |-> <<>>]

\* neither download_s3_file nor upload_file_to_s3 is called on its own
NoS3Call ==
    /\ s3Func = "none"
    /\ s3pc = "idle"
    /\ localFileExists = FALSE
    /\ bucket_name = <<>>
    /\ s3_key = <<>>
    /\ uuidCount = 0
    /\ madeDirs = {}
    /\ clientCalls = 0
    /\ storeCalls = <<>>
    /\ s3Return = S3Running

\* float(n) for a number n that is not NaN
FloatOf(n) == [nan |-> FALSE, v |-> n]

\* float('nan')
NaN == [nan |-> TRUE, v |-> 0]

\* no object
NoObject ==
    [class |-> "NoneType", start_time |-> FloatOf(0), end_time |-> FloatOf(0),
     start_char |-> 0, end_char |-> 0, score |-> FloatOf(0)]

\* no method has been called
NoCall == [method |-> "none", other |-> NoObject, returned |-> FALSE]

\* no method of a Clip is called on its own
NoClipCall ==
    /\ clipSelf = NoObject
    /\ clipCall = NoCall

\* the service has received no request
NoService ==
    /\ requests = <<>>
    /\ responses = <<>>
    /\ tasks = <<>>
    /\ uuid4Count = 0
    /\ fs = {}
    /\ store = {}

\* no function is called on its own
NoLibCall ==
    /\ s3_url = <<>>
    /\ parsed = NotParsed
    /\ NoS3Call
    /\ NoClipCall
    /\ NoService

\* neither a job nor generate_basic_trailer runs
NoProgram ==
    /\ NoJob
    /\ pc = "idle"
    /\ srcExists = FALSE
    /\ outParentOk = FALSE
    /\ num_clips_to_select = DefaultNumClips
    /\ transcription = "unset"
    /\ findReturn = "unset"
    /\ found = <<>>
    /\ clips = <<>>
    /\ selected_clips = <<>>
    /\ i = 0
    /\ trimmed_clip_files = <<>>
    /\ trimCalls = <<>>
    /\ concatCalls = <<>>
    /\ transcribeCalls = 0
    /\ findCalls = <<>>
    /\ mkdirCalls = 0
    /\ wsCreated = FALSE
    /\ wsExists = FALSE
    /\ deleteCalls = 0
    /\ deleteFailed = FALSE
    /\ failure = "none"
    /\ result = "unset"
    /\ raised = FALSE
    /\ wsFiles = {}
    /\ outFile = "absent"

Init ==
    /\ pc = "validate_source"
    /\ srcExists \in BOOLEAN
    /\ outParentOk \in BOOLEAN
    /\ num_clips_to_select \in NumChoices
    /\ transcription = "unset"
    /\ findReturn = "unset"
    /\ found = <<>>
    /\ clips = <<>>
    /\ selected_clips = <<>>
    /\ i = 0
    /\ trimmed_clip_files = <<>>
    /\ trimCalls = <<>>
    /\ concatCalls = <<>>
    /\ transcribeCalls = 0
    /\ findCalls = <<>>
    /\ mkdirCalls = 0
    /\ wsCreated = FALSE
    /\ wsExists = FALSE
    /\ deleteCalls = 0
    /\ deleteFailed = FALSE
    /\ failure = "none"
    /\ result = "unset"
    /\ raised = FALSE
    /\ wsFiles = {}
    /\ outFile = "absent"
    /\ NoJob
    /\ NoLibCall

\* ---- Clip ------------------------------------------------------------------

\* the floats of the model
Floats == { FloatOf(n) : n \in 0..MaxField } \cup {NaN}

\* a == b on floats: NaN is equal to nothing, itself included
FloatEq(a, b) == ~a.nan /\ ~b.nan /\ a.v = b.v

\* bool(a) on a float: every float but zero is true, NaN included
FloatBool(a) == a.nan \/ a.v # 0

\* Clip.__init__ with arguments of the accepted types: the times and the score
\* are stored as floats, the characters as ints
NewClip(start_time, end_time, start_char, end_char, score) ==
    [class |-> "Clip", start_time |-> start_time, end_time |-> end_time,
     start_char |-> start_char, end_char |-> end_char, score |-> score]

ClipObjects ==
    { NewClip(st, et, sc, ec, s) :
        st \in Floats, et \in Floats, sc \in 0..MaxField, ec \in 0..MaxField,
        s \in Floats }

\* Clip.to_dict: a dict with the five fields, which is not a Clip
ToDict(c) == [c EXCEPT !.class = "dict"]

\* Clip.copy
ClipCopy(c) ==
    NewClip(c.start_time, c.end_time, c.start_char, c.end_char, c.score)

\* Clip.__eq__
ClipEq(c, other) ==
    IF other.class # "Clip"
    THEN FALSE
    ELSE /\ FloatEq(c.start_time, other.start_time)
         /\ FloatEq(c.end_time, other.end_time)
         /\ c.start_char = other.start_char
         /\ c.end_char = other.end_char
         /\ FloatEq(c.score, other.score)

\* Clip.__ne__
ClipNe(c, other) == ~ClipEq(c, other)

\* a variant of __bool__ that also looks at the score
ClipBoolWithScore(c) ==
    /\ FloatBool(c.start_time)
    /\ FloatBool(c.end_time)
    /\ c.start_char # 0
    /\ c.end_char # 0
    /\ FloatBool(c.score)

\* Clip.__bool__
ClipBool(c) ==
    /\ FloatBool(c.start_time)
    /\ FloatBool(c.end_time)
    /\ c.start_char # 0
    /\ c.end_char # 0

\* what a Clip is compared with: any Clip, its own dict, or None
Operands(c) == ClipObjects \cup {ToDict(c), NoObject}

ClipInit ==
    /\ clipSelf \in ClipObjects
    /\ clipCall = NoCall
    /\ s3_url = <<>>
    /\ parsed = NotParsed
    /\ NoS3Call
    /\ NoService
    /\ NoProgram

\* clipSelf == other
ClipEqCall ==
    /\ clipCall = NoCall
    /\ \E other \in Operands(clipSelf) :
          clipCall' = [method |-> "eq", other |-> other,
                       returned |-> ClipEq(clipSelf, other)]
    /\ UNCHANGED clipSelf
    /\ UNCHANGED <<parseVars, s3Vars>>
    /\ UNCHANGED svcVars
    /\ UNCHANGED progVars

\* clipSelf != other
ClipNeCall ==
    /\ clipCall = NoCall
    /\ \E other \in Operands(clipSelf) :
          clipCall' = [method |-> "ne", other |-> other,
                       returned |-> ClipNe(clipSelf, other)]
    /\ UNCHANGED clipSelf
    /\ UNCHANGED <<parseVars, s3Vars>>
    /\ UNCHANGED svcVars
    /\ UNCHANGED progVars

\* clipSelf.copy(), then the comparison of the copy with clipSelf
ClipCopyCall ==
    /\ clipCall = NoCall
    /\ clipCall' = [method |-> "copy", other |-> ClipCopy(clipSelf),
                    returned |-> ClipEq(ClipCopy(clipSelf), clipSelf)]
    /\ UNCHANGED clipSelf
    /\ UNCHANGED <<parseVars, s3Vars>>
    /\ UNCHANGED svcVars
    /\ UNCHANGED progVars

\* bool(clipSelf)
ClipBoolCall ==
    /\ clipCall = NoCall
    /\ clipCall' = [method |-> "bool", other |-> NoObject,
                    returned |-> ClipBool(clipSelf)]
    /\ UNCHANGED clipSelf
    /\ UNCHANGED <<parseVars, s3Vars>>
    /\ UNCHANGED svcVars
    /\ UNCHANGED progVars

ClipNext ==
    \/ ClipEqCall
    \/ ClipNeCall
    \/ ClipCopyCall
    \/ ClipBoolCall

\* one method call on one Clip
SpecClip == ClipInit /\ [][ClipNext]_vars

\* ---- steps of generate_basic_trailer --------------------------------------

\* `return None` before the try block: no finally clause runs
ReturnEarly(why) ==
    /\ failure' = why
    /\ result' = "None"
    /\ pc' = "done"

\* a variant whose cleanup is not in a finally clause: a return skips it
FailInTrySkipsFinally(why) ==
    /\ failure' = why
    /\ result' = "None"
    /\ pc' = "done"

\* `return None` inside the try block: the finally clause runs next
FailInTry(why) ==
    /\ failure' = why
    /\ result' = "None"
    /\ pc' = "cleanup"

\* a variant that logs the invalid source and carries on
ValidateSourceNoReturn ==
    /\ pc = "validate_source"
    /\ pc' = "validate_output"
    /\ failure' = IF srcExists THEN failure ELSE "InvalidSource"
    /\ UNCHANGED <<srcExists, outParentOk, num_clips_to_select, transcription,
                   findReturn, found, clips, selected_clips, i,
                   trimmed_clip_files, trimCalls, concatCalls, transcribeCalls,
                   findCalls, mkdirCalls, wsCreated, wsExists, deleteCalls,
                   deleteFailed, result, raised>>
    /\ UNCHANGED <<wsFiles, outFile>>
    /\ UNCHANGED jobVars
    /\ UNCHANGED libVars

\* 1. source validation
ValidateSource ==
    /\ pc = "validate_source"
    /\ IF srcExists
       THEN pc' = "validate_output" /\ UNCHANGED <<failure, result>>
       ELSE ReturnEarly("InvalidSource")
    /\ UNCHANGED <<srcExists, outParentOk, num_clips_to_select, transcription,
                   findReturn, found, clips, selected_clips, i,
                   trimmed_clip_files, trimCalls, concatCalls, transcribeCalls,
                   findCalls, mkdirCalls, wsCreated, wsExists, deleteCalls,
                   deleteFailed,
                   raised>>
    /\ UNCHANGED <<wsFiles, outFile>>
    /\ UNCHANGED jobVars
    /\ UNCHANGED libVars

\* 1. output path validation
ValidateOutput ==
    /\ pc = "validate_output"
    /\ IF outParentOk
       THEN pc' = "make_base_dir" /\ UNCHANGED <<failure, result>>
       ELSE ReturnEarly("InvalidOutput")
    /\ UNCHANGED <<srcExists, outParentOk, num_clips_to_select, transcription,
                   findReturn, found, clips, selected_clips, i,
                   trimmed_clip_files, trimCalls, concatCalls, transcribeCalls,
                   findCalls, mkdirCalls, wsCreated, wsExists, deleteCalls,
                   deleteFailed,
                   raised>>
    /\ UNCHANGED <<wsFiles, outFile>>
    /\ UNCHANGED jobVars
    /\ UNCHANGED libVars

\* os.makedirs(base_temp_dir, exist_ok=True), outside every try block
MakeBaseTempDir ==
    /\ pc = "make_base_dir"
    /\ \E outcome \in {"ok", "raise"} :
          IF outcome = "ok"
          THEN pc' = "make_temp_dir" /\ UNCHANGED raised
          ELSE pc' = "done" /\ raised' = TRUE
    /\ UNCHANGED <<srcExists, outParentOk, num_clips_to_select, transcription,
                   findReturn, found, clips, selected_clips, i,
                   trimmed_clip_files, trimCalls, concatCalls, transcribeCalls,
                   findCalls, mkdirCalls, wsCreated, wsExists, deleteCalls,
                   deleteFailed,
                   failure, result>>
    /\ UNCHANGED <<wsFiles, outFile>>
    /\ UNCHANGED jobVars
    /\ UNCHANGED libVars

\* os.makedirs(temp_dir_path, exist_ok=True), first statement of the try block
MakeTempDir ==
    /\ pc = "make_temp_dir"
    /\ mkdirCalls' = mkdirCalls + 1
    /\ \E outcome \in {"ok", "raise"} :
          IF outcome = "ok"
          THEN /\ wsCreated' = TRUE
               /\ wsExists' = TRUE
               /\ pc' = "transcribe"
               /\ UNCHANGED <<failure, result>>
          ELSE /\ UNCHANGED <<wsCreated, wsExists>>
               /\ FailInTry("Unexpected")
    /\ UNCHANGED <<srcExists, outParentOk, num_clips_to_select, transcription,
                   findReturn, found, clips, selected_clips, i,
                   trimmed_clip_files, trimCalls, concatCalls, transcribeCalls,
                   findCalls, deleteCalls, deleteFailed, raised>>
    /\ UNCHANGED <<wsFiles, outFile>>
    /\ UNCHANGED jobVars
    /\ UNCHANGED libVars

\* a variant without the `if transcription is None` check
TranscribeNoNoneCheck ==
    /\ pc = "transcribe"
    /\ transcribeCalls' = transcribeCalls + 1
    /\ \E outcome \in {"None", "no_utterances", "utterances", "raise"} :
          /\ transcription' = outcome
          /\ IF outcome = "raise"
             THEN FailInTry("Unexpected")
             ELSE pc' = "find_clips" /\ UNCHANGED <<failure, result>>
    /\ UNCHANGED <<srcExists, outParentOk, num_clips_to_select,
                   findReturn, found, clips, selected_clips, i,
                   trimmed_clip_files, trimCalls, concatCalls,
                   findCalls, mkdirCalls, wsCreated, wsExists, deleteCalls,
                   deleteFailed, raised>>
    /\ UNCHANGED <<wsFiles, outFile>>
    /\ UNCHANGED jobVars
    /\ UNCHANGED libVars

\* a variant that ends the run when the transcription has no utterances
AfterTranscribedStopsIfEmpty(outcome) ==
    IF outcome = "no_utterances" THEN "cleanup" ELSE "find_clips"

\* a transcription that is not None: `if not transcription.utterances` only
\* logs a warning, and clip finding follows
AfterTranscribed(outcome) == "find_clips"

\* 2. transcription
Transcribe ==
    /\ pc = "transcribe"
    /\ transcribeCalls' = transcribeCalls + 1
    /\ \E outcome \in {"None", "no_utterances", "utterances", "raise"} :
          /\ transcription' = outcome
          /\ CASE outcome = "raise" -> FailInTry("Unexpected")
               [] outcome = "None" -> FailInTry("TranscriptionFailed")
               [] OTHER -> pc' = AfterTranscribed(outcome) /\ UNCHANGED <<failure, result>>
    /\ UNCHANGED <<srcExists, outParentOk, num_clips_to_select,
                   findReturn, found, clips, selected_clips, i,
                   trimmed_clip_files, trimCalls, concatCalls,
                   findCalls, mkdirCalls, wsCreated, wsExists, deleteCalls,
                   deleteFailed,
                   raised>>
    /\ UNCHANGED <<wsFiles, outFile>>
    /\ UNCHANGED jobVars
    /\ UNCHANGED libVars

\* a variant without the `if not clips` check: an absent list fails in
\* clips.sort, an empty one is caught by the `if not selected_clips` check
FindClipsNoEmptyCheck ==
    /\ pc = "find_clips"
    /\ findCalls' = Append(findCalls, transcription)
    /\ \E outcome \in {"list", "None", "raise"} :
       \E returned \in DiscoveredLists :
          /\ outcome # "list" => returned = <<>>
          /\ findReturn' = outcome
          /\ found' = returned
          /\ IF outcome # "list"
             THEN /\ FailInTry("Unexpected")
                  /\ UNCHANGED <<clips, selected_clips>>
             ELSE LET sortedClips == SortByScoreDesc(returned)
                      sel == SelectClips(sortedClips, num_clips_to_select)
                  IN /\ clips' = sortedClips
                     /\ selected_clips' = sel
                     /\ IF sel = <<>>
                        THEN FailInTry("NoClipsSelected")
                        ELSE pc' = "trim" /\ UNCHANGED <<failure, result>>
    /\ UNCHANGED <<srcExists, outParentOk, num_clips_to_select, transcription,
                   i, trimmed_clip_files, trimCalls, concatCalls,
                   transcribeCalls, mkdirCalls, wsCreated, wsExists, deleteCalls,
                   deleteFailed, raised>>
    /\ UNCHANGED <<wsFiles, outFile>>
    /\ UNCHANGED jobVars
    /\ UNCHANGED libVars

\* 3. clip finding, the sort and 4. the selection
FindClips ==
    /\ pc = "find_clips"
    /\ findCalls' = Append(findCalls, transcription)
    /\ \E outcome \in {"list", "None", "raise"} :
       \E returned \in DiscoveredLists :
          /\ outcome # "list" => returned = <<>>
          /\ findReturn' = outcome
          /\ found' = returned
          /\ IF outcome = "raise"
             THEN /\ FailInTry("Unexpected")
                  /\ UNCHANGED <<clips, selected_clips>>
             ELSE IF returned = <<>>
             THEN /\ FailInTry("NoClipsFound")
                  /\ UNCHANGED <<clips, selected_clips>>
             ELSE LET sortedClips == SortByScoreDesc(returned)
                      sel == SelectClips(sortedClips, num_clips_to_select)
                  IN /\ clips' = sortedClips
                     /\ selected_clips' = sel
                     /\ IF sel = <<>>
                        THEN FailInTry("NoClipsSelected")
                        ELSE pc' = "trim" /\ UNCHANGED <<failure, result>>
    /\ UNCHANGED <<srcExists, outParentOk, num_clips_to_select, transcription,
                   i, trimmed_clip_files, trimCalls, concatCalls,
                   transcribeCalls, mkdirCalls, wsCreated, wsExists, deleteCalls,
                   deleteFailed, raised>>
    /\ UNCHANGED <<wsFiles, outFile>>
    /\ UNCHANGED jobVars
    /\ UNCHANGED libVars

\* a variant that numbers the destination by the count of surviving trims
TrimCallSurvivorIndex(clip_data, idx, returned) ==
    [start_time |-> clip_data.start_time,
     end_time |-> clip_data.end_time,
     trimmed_media_file_path |-> ClipPath(Len(trimmed_clip_files)),
     overwrite |-> TRUE,
     returned |-> returned]

\* the keyword arguments of one MediaEditor.trim call, with what it returned
TrimCall(clip_data, idx, returned) ==
    [start_time |-> clip_data.start_time,
     end_time |-> clip_data.end_time,
     trimmed_media_file_path |-> ClipPath(idx),
     overwrite |-> TRUE,
     returned |-> returned]

\* a variant without the isinstance check: `if trimmed_file`
TrimSucceededTruthy(returned) ==
    returned.kind # "None"

\* `if trimmed_file and isinstance(trimmed_file, TemporalMediaFile)`
TrimSucceeded(returned) ==
    returned.kind # "None" /\ returned.kind = "TemporalMediaFile"

\* what MediaEditor.trim hands back for each outcome of the call
TrimReturn(outcome, path) ==
    CASE outcome = "media" -> MediaHandle(path)
      [] outcome = "None" -> NoHandle
      [] outcome = "other" -> WrongHandle
      [] OTHER -> RaisedNoHandle

\* a variant that catches an exception of trim inside the loop and goes on to
\* the next clip
TrimEscapesNever(outcome) == FALSE

\* the loop body has no try block: an exception of trim leaves the loop
TrimEscapes(outcome) == outcome = "raise"

\* a variant of the loop that stops after its first iteration
LoopStopsAfterFirst(done, selected) == FALSE

\* `for i, clip_data in enumerate(selected_clips)`: another clip is left
LoopContinues(done, selected) == done < Len(selected)

\* the Clip object a discovered clip is: Clip.__init__ keeps the times and the
\* score as floats
AsClipObject(c) ==
    NewClip(FloatOf(c.start_time), FloatOf(c.end_time), c.start_char, c.end_char,
            FloatOf(c.score))

\* a variant that also skips a Clip that is falsy: `if not clip_data`
NotAClipOrFalsy(clip_data) == ~ClipBool(AsClipObject(clip_data))

\* `if not isinstance(clip_data, Clip)`: the item is skipped.  Every item of
\* a discovered list is a Clip
NotAClip(clip_data) == FALSE

\* 5. one iteration of the trimming loop
TrimClip ==
    /\ pc = "trim"
    /\ i < Len(selected_clips)
    /\ LET clip_data == selected_clips[i + 1]
           temp_clip_path == ClipPath(i)
       IN IF NotAClip(clip_data)
          THEN /\ i' = i + 1
               /\ pc' = IF LoopContinues(i + 1, selected_clips)
                        THEN "trim" ELSE "concat"
               /\ UNCHANGED <<trimCalls, wsFiles, trimmed_clip_files, failure, result>>
          ELSE
          \E outcome \in {"media", "None", "other", "raise"} :
          LET trimmed_file == TrimReturn(outcome, temp_clip_path)
          IN /\ trimCalls' = Append(trimCalls,
                                    TrimCall(clip_data, i, trimmed_file))
             /\ wsFiles' = IF outcome = "media" THEN wsFiles \cup {i} ELSE wsFiles
             /\ IF TrimEscapes(outcome)
                THEN /\ FailInTry("Unexpected")
                     /\ UNCHANGED <<i, trimmed_clip_files>>
                ELSE /\ trimmed_clip_files' =
                           IF TrimSucceeded(trimmed_file)
                           THEN Append(trimmed_clip_files, trimmed_file)
                           ELSE trimmed_clip_files
                     /\ i' = i + 1
                     /\ pc' = IF LoopContinues(i + 1, selected_clips)
                              THEN "trim" ELSE "concat"
                     /\ UNCHANGED <<failure, result>>
    /\ UNCHANGED <<srcExists, outParentOk, num_clips_to_select, transcription,
                   findReturn, found, clips, selected_clips, concatCalls,
                   transcribeCalls, findCalls, mkdirCalls, wsCreated, wsExists,
                   deleteCalls, deleteFailed, raised>>
    /\ UNCHANGED outFile
    /\ UNCHANGED jobVars
    /\ UNCHANGED libVars

\* a variant without the `if not trimmed_clip_files` check: concatenate is
\* called with the empty list
AllTrimsFailedStillConcatenates ==
    /\ pc = "concat"
    /\ trimmed_clip_files = <<>>
    /\ concatCalls' = Append(concatCalls,
                             [media_files |-> trimmed_clip_files,
                              concatenated_media_file_path |-> "output_trailer_path",
                              overwrite |-> TRUE,
                              returned |-> "None"])
    /\ FailInTry("ConcatFailed")
    /\ UNCHANGED <<srcExists, outParentOk, num_clips_to_select, transcription,
                   findReturn, found, clips, selected_clips, i,
                   trimmed_clip_files, trimCalls, transcribeCalls,
                   findCalls, mkdirCalls, wsCreated, wsExists, deleteCalls,
                   deleteFailed, raised>>
    /\ UNCHANGED <<wsFiles, outFile>>
    /\ UNCHANGED jobVars
    /\ UNCHANGED libVars

\* 6. no clip survived trimming
AllTrimsFailed ==
    /\ pc = "concat"
    /\ trimmed_clip_files = <<>>
    /\ FailInTry("AllTrimsFailed")
    /\ UNCHANGED <<srcExists, outParentOk, num_clips_to_select, transcription,
                   findReturn, found, clips, selected_clips, i,
                   trimmed_clip_files, trimCalls, concatCalls, transcribeCalls,
                   findCalls, mkdirCalls, wsCreated, wsExists, deleteCalls,
                   deleteFailed,
                   raised>>
    /\ UNCHANGED <<wsFiles, outFile>>
    /\ UNCHANGED jobVars
    /\ UNCHANGED libVars

\* a variant of the test of the concatenation's result without the
\* isinstance check: any truthy object passes
ConcatSucceededTruthy(returned) == returned \in {"VideoFile", "other"}

\* `if final_trailer_file and isinstance(final_trailer_file, VideoFile)`
ConcatSucceeded(returned) == returned = "VideoFile"

\* what a concatenation that failed leaves at output_trailer_path: what was
\* there, or the part it had written when it gave up
FailedConcatLeaves(before) == {before, "partial"}

\* 6. concatenation; "other" is a truthy object that is not a VideoFile
Concatenate ==
    /\ pc = "concat"
    /\ trimmed_clip_files # <<>>
    /\ \E outcome \in {"VideoFile", "None", "other", "raise"} :
          /\ concatCalls' = Append(concatCalls,
                                   [media_files |-> trimmed_clip_files,
                                    concatenated_media_file_path |-> "output_trailer_path",
                                    overwrite |-> TRUE,
                                    returned |-> outcome])
          /\ CASE outcome = "raise" ->
                    /\ FailInTry("Unexpected")
                    /\ outFile' \in FailedConcatLeaves(outFile)
               [] outcome # "raise" /\ ConcatSucceeded(outcome) ->
                    /\ result' = outcome
                    /\ pc' = "cleanup"
                    /\ \E onDisk \in BOOLEAN :
                          outFile' = IF onDisk /\ outcome = "VideoFile"
                                     THEN "written" ELSE outFile
                    /\ UNCHANGED failure
               [] OTHER ->
                    /\ FailInTry("ConcatFailed")
                    /\ outFile' \in FailedConcatLeaves(outFile)
    /\ UNCHANGED <<srcExists, outParentOk, num_clips_to_select, transcription,
                   findReturn, found, clips, selected_clips, i,
                   trimmed_clip_files, trimCalls, transcribeCalls,
                   findCalls, mkdirCalls, wsCreated, wsExists, deleteCalls,
                   deleteFailed,
                   raised>>
    /\ UNCHANGED wsFiles
    /\ UNCHANGED jobVars
    /\ UNCHANGED libVars

\* a variant of the finally clause that deletes the workspace only after a
\* successful run
CleanupNeededOnSuccess == wsExists /\ result = "VideoFile"

\* `if os.path.exists(temp_dir_path)`
CleanupNeeded == wsExists

\* a variant of the finally clause that also removes the output file
CleanupRemovesOutput ==
    /\ pc = "cleanup"
    /\ IF CleanupNeeded
       THEN /\ deleteCalls' = deleteCalls + 1
            /\ \E outcome \in {"ok", "raise"} :
                  /\ wsExists' = (outcome = "raise")
                  /\ deleteFailed' = (outcome = "raise")
                  /\ wsFiles' = IF outcome = "ok" THEN {} ELSE wsFiles
       ELSE UNCHANGED <<deleteCalls, wsExists, deleteFailed, wsFiles>>
    /\ pc' = "done"
    /\ UNCHANGED <<srcExists, outParentOk, num_clips_to_select, transcription,
                   findReturn, found, clips, selected_clips, i,
                   trimmed_clip_files, trimCalls, concatCalls, transcribeCalls,
                   findCalls, mkdirCalls, wsCreated, failure, result, raised>>
    /\ outFile' = "absent"
    /\ UNCHANGED jobVars
    /\ UNCHANGED libVars

\* a variant of the finally clause without the os.path.exists test: delete_dir
\* is called on the absent directory and its error is logged
ReleaseAbsentStillDeletes ==
    /\ deleteCalls' = deleteCalls + 1
    /\ deleteFailed' = TRUE
    /\ UNCHANGED <<wsExists, wsFiles>>

\* `if os.path.exists(temp_dir_path)` has no else branch: nothing is done for
\* a directory that is not there
ReleaseAbsent ==
    UNCHANGED <<deleteCalls, wsExists, deleteFailed, wsFiles>>

\* 7. the finally clause
Cleanup ==
    /\ pc = "cleanup"
    /\ IF CleanupNeeded
       THEN /\ deleteCalls' = deleteCalls + 1
            /\ \E outcome \in {"ok", "raise"} :
                  /\ wsExists' = (outcome = "raise")
                  /\ deleteFailed' = (outcome = "raise")
                  /\ wsFiles' = IF outcome = "ok" THEN {} ELSE wsFiles
       ELSE ReleaseAbsent
    /\ pc' = "done"
    /\ UNCHANGED <<srcExists, outParentOk, num_clips_to_select, transcription,
                   findReturn, found, clips, selected_clips, i,
                   trimmed_clip_files, trimCalls, concatCalls, transcribeCalls,
                   findCalls, mkdirCalls, wsCreated, failure, result, raised>>
    /\ UNCHANGED outFile
    /\ UNCHANGED jobVars
    /\ UNCHANGED libVars

Next ==
    \/ ValidateSource
    \/ ValidateOutput
    \/ MakeBaseTempDir
    \/ MakeTempDir
    \/ Transcribe
    \/ FindClips
    \/ TrimClip
    \/ AllTrimsFailed
    \/ Concatenate
    \/ Cleanup

Spec == Init /\ [][Next]_vars

\* ---- steps of process_trailer_generation_task -----------------------------

\* A job starts with nothing done.  The fetched object may or may not be a
\* video file VideoFile.assert_exists accepts; the output directory has just
\* been made by the job, so the output path's parent is valid; the job passes
\* no num_clips_to_select.
JobInit ==
    /\ jpc = "job_start"
    /\ JobFresh
    /\ pc = "idle"
    /\ srcExists \in BOOLEAN
    /\ outParentOk = TRUE
    /\ num_clips_to_select = DefaultNumClips
    /\ transcription = "unset"
    /\ findReturn = "unset"
    /\ found = <<>>
    /\ clips = <<>>
    /\ selected_clips = <<>>
    /\ i = 0
    /\ trimmed_clip_files = <<>>
    /\ trimCalls = <<>>
    /\ concatCalls = <<>>
    /\ transcribeCalls = 0
    /\ findCalls = <<>>
    /\ mkdirCalls = 0
    /\ wsCreated = FALSE
    /\ wsExists = FALSE
    /\ deleteCalls = 0
    /\ deleteFailed = FALSE
    /\ failure = "none"
    /\ result = "unset"
    /\ raised = FALSE
    /\ wsFiles = {}
    /\ outFile = "absent"
    /\ NoLibCall

\* a variant without the `except Exception` clause: the finally clause runs
\* and the exception goes on to the caller
JobExceptMissing ==
    /\ jobRaised' = TRUE
    /\ jpc' = "job_cleanup"
    /\ UNCHANGED jobCaught

\* an exception raised inside the try block: `except Exception` logs it, the
\* finally clause runs next
JobExcept ==
    /\ jobCaught' = TRUE
    /\ jpc' = "job_cleanup"
    /\ UNCHANGED jobRaised

\* the try block goes on, or is left normally (return, or its end)
JobGoto(where) ==
    /\ jpc' = where
    /\ UNCHANGED <<jobCaught, jobRaised>>

\* os.makedirs(base_processing_dir, exist_ok=True)
JobMakeDirs ==
    /\ jpc = "job_start"
    /\ \E outcome \in {"ok", "raise"} :
          IF outcome = "ok"
          THEN jobDirExists' = TRUE /\ JobGoto("download")
          ELSE UNCHANGED jobDirExists /\ JobExcept
    /\ UNCHANGED <<downloadCalls, downloadResult, pipelineCalls, existsCheck,
                   uploadCalls, uploadResult, published, removeCalls,
                   removeFailed, rmtreeCalls, rmtreeFailed>>
    /\ UNCHANGED <<pc, outFile, pipeState>>
    /\ UNCHANGED libVars

\* a variant without the `if not local_movie_path: return` check
JobDownloadNoCheck ==
    /\ jpc = "download"
    /\ downloadCalls' = downloadCalls + 1
    /\ \E outcome \in {"path", "None", "raise"} :
          /\ downloadResult' = outcome
          /\ IF outcome = "raise" THEN JobExcept ELSE JobGoto("start_pipeline")
    /\ UNCHANGED <<jobDirExists, pipelineCalls, existsCheck,
                   uploadCalls, uploadResult, published, removeCalls,
                   removeFailed, rmtreeCalls, rmtreeFailed>>
    /\ UNCHANGED <<pc, outFile, pipeState>>
    /\ UNCHANGED libVars

\* 1. download_s3_file(s3_url, base_processing_dir)
JobDownload ==
    /\ jpc = "download"
    /\ downloadCalls' = downloadCalls + 1
    /\ \E outcome \in {"path", "None", "raise"} :
          /\ downloadResult' = outcome
          /\ CASE outcome = "path" -> JobGoto("start_pipeline")
               [] outcome = "None" -> JobGoto("job_cleanup")
               [] OTHER -> JobExcept
    /\ UNCHANGED <<jobDirExists, pipelineCalls, existsCheck,
                   uploadCalls, uploadResult, published, removeCalls,
                   removeFailed, rmtreeCalls, rmtreeFailed>>
    /\ UNCHANGED <<pc, outFile, pipeState>>
    /\ UNCHANGED libVars

\* 2., 3., 4. the components are built, the output directory is made and
\* generate_basic_trailer is called
JobStartPipeline ==
    /\ jpc = "start_pipeline"
    /\ pc = "idle"
    /\ \E outcome \in {"ok", "raise"} :
          IF outcome = "ok"
          THEN /\ pc' = "validate_source"
               /\ pipelineCalls' = pipelineCalls + 1
               /\ JobGoto("in_pipeline")
          ELSE /\ UNCHANGED <<pc, pipelineCalls>>
               /\ JobExcept
    /\ UNCHANGED <<jobDirExists, downloadCalls, downloadResult, existsCheck,
                   uploadCalls, uploadResult, published, removeCalls,
                   removeFailed, rmtreeCalls, rmtreeFailed>>
    /\ UNCHANGED <<outFile, pipeState>>
    /\ UNCHANGED libVars

\* a variant of the condition of line 117 without the os.path.exists test
ShouldUploadIgnoresFile(generated, onDisk) ==
    generated = "VideoFile"

\* `if generated_video_file_obj and os.path.exists(final_trailer_path)`
ShouldUpload(generated, onDisk) ==
    generated = "VideoFile" /\ onDisk

\* a variant of the else branch that removes what is at final_trailer_path
\* when no trailer was generated
AfterNoTrailerRemovesFile == "remove_local"

\* the else branch of line 137: the failure is logged and the try block ends
AfterNoTrailer == "job_cleanup"

\* generate_basic_trailer has returned or raised; the test of line 117
JobPipelineDone ==
    /\ jpc = "in_pipeline"
    /\ pc = "done"
    /\ IF raised
       THEN JobExcept /\ UNCHANGED existsCheck
       ELSE /\ existsCheck' = IF result = "VideoFile"
                              THEN (IF outFile # "absent" THEN "True" ELSE "False")
                              ELSE existsCheck
            /\ IF ShouldUpload(result, outFile # "absent")
               THEN JobGoto("upload")
               ELSE JobGoto(AfterNoTrailer)
    /\ UNCHANGED <<jobDirExists, downloadCalls, downloadResult, pipelineCalls,
                   uploadCalls, uploadResult, published, removeCalls,
                   removeFailed, rmtreeCalls, rmtreeFailed>>
    /\ UNCHANGED <<pc, outFile, pipeState>>
    /\ UNCHANGED libVars

\* a variant that removes the local file whatever the upload returned
JobUploadThenRemove ==
    /\ jpc = "upload"
    /\ uploadCalls' = Append(uploadCalls,
                             [local_file_path |-> "output_trailer_path",
                              bucket_name |-> UploadBucket,
                              s3_key |-> S3TrailerKey(ProcessingId)])
    /\ \E outcome \in {"url", "None", "raise"} :
          /\ uploadResult' = outcome
          /\ published' = IF outcome = "url"
                          THEN published \cup {[bucket |-> UploadBucket,
                                                key |-> S3TrailerKey(ProcessingId)]}
                          ELSE published
          /\ IF outcome = "raise" THEN JobExcept ELSE JobGoto("remove_local")
    /\ UNCHANGED <<jobDirExists, downloadCalls, downloadResult, pipelineCalls,
                   existsCheck, removeCalls, removeFailed, rmtreeCalls,
                   rmtreeFailed>>
    /\ UNCHANGED <<pc, outFile, pipeState>>
    /\ UNCHANGED libVars

\* a variant that calls upload_file_to_s3 a second time after a first failure
AfterUploadFailedRetry(calls) == IF calls = <<>> THEN "upload" ELSE "job_cleanup"

\* the else branch of `if uploaded_s3_url`: the failure is logged and the try
\* block ends
AfterUploadFailed(calls) == "job_cleanup"

\* upload_file_to_s3(final_trailer_path, S3_UPLOAD_BUCKET, s3_trailer_key)
JobUpload ==
    /\ jpc = "upload"
    /\ uploadCalls' = Append(uploadCalls,
                             [local_file_path |-> "output_trailer_path",
                              bucket_name |-> UploadBucket,
                              s3_key |-> S3TrailerKey(ProcessingId)])
    /\ \E outcome \in {"url", "None", "raise"} :
          /\ uploadResult' = outcome
          /\ published' = IF outcome = "url"
                          THEN published \cup {[bucket |-> UploadBucket,
                                                key |-> S3TrailerKey(ProcessingId)]}
                          ELSE published
          /\ CASE outcome = "url" -> JobGoto("remove_local")
               [] outcome = "None" -> JobGoto(AfterUploadFailed(uploadCalls))
               [] OTHER -> JobExcept
    /\ UNCHANGED <<jobDirExists, downloadCalls, downloadResult, pipelineCalls,
                   existsCheck, removeCalls, removeFailed, rmtreeCalls,
                   rmtreeFailed>>
    /\ UNCHANGED <<pc, outFile, pipeState>>
    /\ UNCHANGED libVars

\* os.remove(final_trailer_path) after a successful upload; its OSError is
\* logged
JobRemoveLocal ==
    /\ jpc = "remove_local"
    /\ removeCalls' = removeCalls + 1
    /\ \E outcome \in {"ok", "raise"} :
          /\ outFile' = IF outcome = "ok" THEN "absent" ELSE outFile
          /\ removeFailed' = (outcome = "raise")
    /\ JobGoto("job_cleanup")
    /\ UNCHANGED <<jobDirExists, downloadCalls, downloadResult, pipelineCalls,
                   existsCheck, uploadCalls, uploadResult, published,
                   rmtreeCalls, rmtreeFailed>>
    /\ UNCHANGED <<pc, pipeState>>
    /\ UNCHANGED libVars

\* a variant of the finally clause that cleans up only after an error
JobCleanupNeededOnError == jobDirExists /\ jobCaught

\* `if os.path.exists(base_processing_dir)`
JobCleanupNeeded == jobDirExists

\* a variant of the finally clause without the try/except around
\* shutil.rmtree: its exception leaves the job
JobCleanupPropagates ==
    /\ jpc = "job_cleanup"
    /\ IF JobCleanupNeeded
       THEN /\ rmtreeCalls' = rmtreeCalls + 1
            /\ \E outcome \in {"ok", "raise"} :
                  /\ jobDirExists' = (outcome = "raise")
                  /\ rmtreeFailed' = (outcome = "raise")
                  /\ jobRaised' = (outcome = "raise")
       ELSE UNCHANGED <<rmtreeCalls, jobDirExists, rmtreeFailed, jobRaised>>
    /\ jpc' = "job_done"
    /\ UNCHANGED <<downloadCalls, downloadResult, pipelineCalls, existsCheck,
                   uploadCalls, uploadResult, published, removeCalls,
                   removeFailed, jobCaught>>
    /\ UNCHANGED <<pc, outFile, pipeState>>
    /\ UNCHANGED libVars

\* 5. the finally clause of the job
JobCleanup ==
    /\ jpc = "job_cleanup"
    /\ IF JobCleanupNeeded
       THEN /\ rmtreeCalls' = rmtreeCalls + 1
            /\ \E outcome \in {"ok", "raise"} :
                  /\ jobDirExists' = (outcome = "raise")
                  /\ rmtreeFailed' = (outcome = "raise")
       ELSE UNCHANGED <<rmtreeCalls, jobDirExists, rmtreeFailed>>
    /\ jpc' = "job_done"
    /\ UNCHANGED <<downloadCalls, downloadResult, pipelineCalls, existsCheck,
                   uploadCalls, uploadResult, published, removeCalls,
                   removeFailed, jobCaught, jobRaised>>
    /\ UNCHANGED <<pc, outFile, pipeState>>
    /\ UNCHANGED libVars

JobNext ==
    \/ JobMakeDirs
    \/ JobDownload
    \/ JobStartPipeline
    \/ Next
    \/ JobPipelineDone
    \/ JobUpload
    \/ JobRemoveLocal
    \/ JobCleanup

\* one job: process_trailer_generation_task run by the background scheduler
SpecJob == JobInit /\ [][JobNext]_vars

\* the job under the assumption that each collaborator call returns or raises:
\* the interpreter then runs the next statement of the job, so a step that is
\* possible is eventually taken
SpecJobLive == SpecJob /\ WF_vars(JobNext)


\* ---- vocabulary of the properties -----------------------------------------

\* both validations of step 1 pass
Validated == srcExists /\ outParentOk

\* the call has returned a value to its caller
Returned == pc = "done" /\ ~raised

\* find_clips returned a non-empty list (so the sort and the selection ran)
HasClips == findReturn = "list" /\ found # <<>>

\* the clips of s that have score v, in the order of s
WithScore(s, v) == SelectSeq(s, LAMBDA c : c.score = v)

IsPrefix(a, b) == Len(a) <= Len(b) /\ a = SubSeq(b, 1, Len(a))

SortedDesc(s) ==
    \A j, k \in 1..Len(s) : j < k => s[j].score >= s[k].score

\* indices of the trim calls that returned a media handle
OkTrims ==
    { j \in 1..Len(trimCalls) : trimCalls[j].returned.kind = "TemporalMediaFile" }

\* the handles the successful trim calls returned, in call order
SurvivingHandles ==
    SelectSeq([j \in 1..Len(trimCalls) |-> trimCalls[j].returned],
              LAMBDA h : h.kind = "TemporalMediaFile")

\* the trimming loop is over and no trim call raised
PastTrimming ==
    /\ pc \in {"cleanup", "done"}
    /\ trimCalls # <<>>
    /\ \A j \in 1..Len(trimCalls) : trimCalls[j].returned.kind # "raised"

\* the j-th trim call carries the time range of the j-th selected clip
TrimCallMatches(j) ==
    /\ j <= Len(selected_clips)
    /\ trimCalls[j].start_time = selected_clips[j].start_time
    /\ trimCalls[j].end_time = selected_clips[j].end_time

\* ---- parse_s3_url ---------------------------------------------------------

\* A locator is a sequence of tokens.  "s3" is the word s3, and a run of two
\* or more of them is another word (s3s3, ...), so that a scheme is s3 exactly
\* when it is the one-token run; ":" and "/" are themselves; "?" is a "?" or
\* a "#", which both end the path; "[" is a bracket that does not enclose an
\* IP address, which urlparse refuses in a network location.
UrlTokens == {"s3", ":", "/", "?", "["}

Urls == UNION { [1..n -> UrlTokens] : n \in 0..MaxUrlLen }

\* the tokens made only of characters a scheme may contain
SchemeChars == {"s3"}

\* the index of the first element of s, at or after index from, that is in
\* set; Len(s) + 1 when there is none (str.find)
FirstIn(s, from, set) ==
    LET hits == { k \in from..Len(s) : s[k] \in set }
    IN IF hits = {} THEN Len(s) + 1
       ELSE CHOOSE k \in hits : \A h \in hits : k <= h

\* s[k:]
From(s, k) == SubSeq(s, k, Len(s))

\* urllib.parse.urlparse(url): the scheme is what precedes the first ":" when
\* that is a non-empty run of scheme characters; a network location follows
\* "//" and runs to the next "/", "?" or "#"; the path runs to the next "?" or
\* "#".  A bracket in the network location raises ValueError.
UrlParse(url) ==
    LET colon == FirstIn(url, 1, {":"})
        hasScheme == /\ colon > 1
                     /\ colon <= Len(url)
                     /\ \A k \in 1..(colon - 1) : url[k] \in SchemeChars
        scheme == IF hasScheme THEN SubSeq(url, 1, colon - 1) ELSE <<>>
        rest == IF hasScheme THEN From(url, colon + 1) ELSE url
        hasNetloc == Len(rest) >= 2 /\ rest[1] = "/" /\ rest[2] = "/"
        delim == FirstIn(rest, 3, {"/", "?"})
        netloc == IF hasNetloc THEN SubSeq(rest, 3, delim - 1) ELSE <<>>
        afterNetloc == IF hasNetloc THEN From(rest, delim) ELSE rest
        path == SubSeq(afterNetloc, 1, FirstIn(afterNetloc, 1, {"?"}) - 1)
    IN [raised |-> \E k \in 1..Len(netloc) : netloc[k] = "[",
        scheme |-> scheme,
        netloc |-> netloc,
        path |-> path]

\* a variant of lstrip that strips nothing
LStripNothing(path) == path

\* path.lstrip('/')
LStrip(path) == From(path, FirstIn(path, 1, UrlTokens \ {"/"}))

\* the None parse_s3_url returns
ParsedNone == [kind |-> "None", bucket_name |-> <<>>, key |-> <<>>]

\* parse_s3_url(s3_url)
ParseS3Url(url) ==
    LET p == UrlParse(url)
    IN IF p.raised
       THEN ParsedNone
       ELSE IF p.scheme # <<"s3">> \/ p.netloc = <<>> \/ LStrip(p.path) = <<>>
            THEN ParsedNone
            ELSE [kind |-> "pair", bucket_name |-> p.netloc, key |-> LStrip(p.path)]

\* any locator may be given
ParseInit ==
    /\ s3_url \in Urls
    /\ parsed = NotParsed
    /\ NoS3Call
    /\ NoClipCall
    /\ NoService
    /\ NoProgram

\* the call of parse_s3_url returns
ParseCall ==
    /\ parsed = NotParsed
    /\ parsed' = ParseS3Url(s3_url)
    /\ UNCHANGED s3_url
    /\ UNCHANGED s3Vars
    /\ UNCHANGED clipVars
    /\ UNCHANGED svcVars
    /\ UNCHANGED progVars

ParseNext == ParseCall

\* one call of parse_s3_url
SpecParse == ParseInit /\ [][ParseNext]_vars

\* ---- download_s3_file and upload_file_to_s3 --------------------------------

\* the locators given to download_s3_file: without a scheme, without "//",
\* with another scheme, with a bracket, and with the keys s3, s3/ and s3/s3
SampleLocators ==
    { <<>>,
      <<"s3", ":", "/", "s3">>,
      <<"s3", "s3", ":", "/", "/", "s3", "/", "s3">>,
      <<"s3", ":", "/", "/", "[", "/", "s3">>,
      <<"s3", ":", "/", "/", "s3", "/", "s3">>,
      <<"s3", ":", "/", "/", "s3", "/", "s3", "/">>,
      <<"s3", ":", "/", "/", "s3", "/", "s3", "/", "s3">> }

\* the bucket names and keys given to upload_file_to_s3
SampleBuckets == { <<"s3">>, <<"s3", "s3">> }

SampleKeys == { <<"s3">>, <<"s3", "/", "s3">> }

\* os.path.basename(key): what follows the last "/"
Basename(key) ==
    LET slashes == { k \in 1..Len(key) : key[k] = "/" }
        last == IF slashes = {} THEN 0
                ELSE CHOOSE k \in slashes : \A h \in slashes : h <= k
    IN From(key, last + 1)

\* os.path.join(download_instance_dir, original_filename), where the file is
\* named downloaded_file_<uuid> when the key has no basename
LocalFilePath(dir, key, uuid) ==
    [dir |-> dir,
     name |-> Basename(key),
     generated |-> IF Basename(key) = <<>> THEN uuid ELSE 0]

\* f"s3://{bucket_name}/{s3_key}"
UploadedUrl(bucket, key) ==
    <<"s3", ":", "/", "/">> \o bucket \o <<"/">> \o key

\* `return None`
S3ReturnNone ==
    /\ s3Return' = [kind |-> "None", path |-> NoPath, url |-> <<>>]
    /\ s3pc' = "returned"

\* an exception leaves the function
S3Raise ==
    /\ s3Return' = [kind |-> "raised", path |-> NoPath, url |-> <<>>]
    /\ s3pc' = "raised"

S3Init ==
    /\ s3_url \in SampleLocators
    /\ parsed = NotParsed
    /\ s3Func = "none"
    /\ s3pc = "start"
    /\ localFileExists \in BOOLEAN
    /\ bucket_name \in SampleBuckets
    /\ s3_key \in SampleKeys
    /\ uuidCount = 0
    /\ madeDirs = {}
    /\ clientCalls = 0
    /\ storeCalls = <<>>
    /\ s3Return = S3Running
    /\ NoClipCall
    /\ NoService
    /\ NoProgram

\* download_s3_file is called: the locator is parsed
DownloadParse ==
    /\ s3pc = "start"
    /\ s3Func' = "download"
    /\ parsed' = ParseS3Url(s3_url)
    /\ IF ParseS3Url(s3_url) = ParsedNone
       THEN S3ReturnNone
       ELSE s3pc' = "dl_makedirs" /\ UNCHANGED s3Return
    /\ UNCHANGED <<s3_url, localFileExists, bucket_name, s3_key, uuidCount,
                   madeDirs, clientCalls, storeCalls>>
    /\ UNCHANGED clipVars
    /\ UNCHANGED svcVars
    /\ UNCHANGED progVars

\* the download directory, named by a new uuid, is made
DownloadMakeDirs ==
    /\ s3pc = "dl_makedirs"
    /\ uuidCount' = uuidCount + 1
    /\ \E outcome \in {"ok", "OSError"} :
          IF outcome = "ok"
          THEN /\ madeDirs' = madeDirs \cup {uuidCount + 1}
               /\ s3pc' = "dl_client"
               /\ UNCHANGED s3Return
          ELSE /\ S3ReturnNone
               /\ UNCHANGED madeDirs
    /\ UNCHANGED <<s3_url, parsed, s3Func, localFileExists, bucket_name, s3_key,
                   clientCalls, storeCalls>>
    /\ UNCHANGED clipVars
    /\ UNCHANGED svcVars
    /\ UNCHANGED progVars

\* the file name is chosen and boto3.client("s3") is called, outside any try
DownloadClient ==
    /\ s3pc = "dl_client"
    /\ uuidCount' = IF Basename(parsed.key) = <<>>
                    THEN uuidCount + 1 ELSE uuidCount
    /\ clientCalls' = clientCalls + 1
    /\ \E outcome \in {"ok", "raise"} :
          IF outcome = "ok"
          THEN s3pc' = "dl_transfer" /\ UNCHANGED s3Return
          ELSE S3Raise
    /\ UNCHANGED <<s3_url, parsed, s3Func, localFileExists, bucket_name, s3_key,
                   madeDirs, storeCalls>>
    /\ UNCHANGED clipVars
    /\ UNCHANGED svcVars
    /\ UNCHANGED progVars

\* s3_client.download_file(bucket_name, key, local_file_path) and its handlers
DownloadTransfer ==
    /\ s3pc = "dl_transfer"
    /\ LET local_file_path ==
               LocalFilePath(CHOOSE d \in madeDirs : TRUE, parsed.key, uuidCount)
       IN \E outcome \in {"ok", "NoCredentialsError", "ClientError404",
                          "ClientError403", "ClientError", "Exception"} :
             /\ storeCalls' = Append(storeCalls,
                                     [op |-> "download_file",
                                      bucket |-> parsed.bucket_name,
                                      key |-> parsed.key,
                                      outcome |-> outcome])
             /\ IF outcome = "ok"
                THEN /\ s3Return' = [kind |-> "path", path |-> local_file_path,
                                     url |-> <<>>]
                     /\ s3pc' = "returned"
                ELSE S3ReturnNone
    /\ UNCHANGED <<s3_url, parsed, s3Func, localFileExists, bucket_name, s3_key,
                   uuidCount, madeDirs, clientCalls>>
    /\ UNCHANGED clipVars
    /\ UNCHANGED svcVars
    /\ UNCHANGED progVars

\* upload_file_to_s3 is called: `if not os.path.exists(local_file_path)`
UploadCheckFile ==
    /\ s3pc = "start"
    /\ s3Func' = "upload"
    /\ IF localFileExists
       THEN s3pc' = "ul_client" /\ UNCHANGED s3Return
       ELSE S3ReturnNone
    /\ UNCHANGED <<s3_url, parsed, localFileExists, bucket_name, s3_key,
                   uuidCount, madeDirs, clientCalls, storeCalls>>
    /\ UNCHANGED clipVars
    /\ UNCHANGED svcVars
    /\ UNCHANGED progVars

\* boto3.client("s3") is called, outside any try
UploadClient ==
    /\ s3pc = "ul_client"
    /\ clientCalls' = clientCalls + 1
    /\ \E outcome \in {"ok", "raise"} :
          IF outcome = "ok"
          THEN s3pc' = "ul_transfer" /\ UNCHANGED s3Return
          ELSE S3Raise
    /\ UNCHANGED <<s3_url, parsed, s3Func, localFileExists, bucket_name, s3_key,
                   uuidCount, madeDirs, storeCalls>>
    /\ UNCHANGED clipVars
    /\ UNCHANGED svcVars
    /\ UNCHANGED progVars

\* s3_client.upload_file(local_file_path, bucket_name, s3_key) and its handlers
UploadTransfer ==
    /\ s3pc = "ul_transfer"
    /\ \E outcome \in {"ok", "NoCredentialsError", "ClientError", "Exception"} :
          /\ storeCalls' = Append(storeCalls,
                                  [op |-> "upload_file",
                                   bucket |-> bucket_name,
                                   key |-> s3_key,
                                   outcome |-> outcome])
          /\ IF outcome = "ok"
             THEN /\ s3Return' = [kind |-> "url", path |-> NoPath,
                                  url |-> UploadedUrl(bucket_name, s3_key)]
                  /\ s3pc' = "returned"
             ELSE S3ReturnNone
    /\ UNCHANGED <<s3_url, parsed, s3Func, localFileExists, bucket_name, s3_key,
                   uuidCount, madeDirs, clientCalls>>
    /\ UNCHANGED clipVars
    /\ UNCHANGED svcVars
    /\ UNCHANGED progVars

S3Next ==
    \/ DownloadParse
    \/ DownloadMakeDirs
    \/ DownloadClient
    \/ DownloadTransfer
    \/ UploadCheckFile
    \/ UploadClient
    \/ UploadTransfer

\* one call of download_s3_file or of upload_file_to_s3
SpecS3 == S3Init /\ [][S3Next]_vars

\* ---- the service: create_trailer and the jobs it schedules -----------------

\* the locators requests carry: one that parses and one that does not
RequestLocators ==
    { <<"s3", ":", "/", "/", "s3", "/", "s3">>,
      <<"s3", ":", "/", "s3">> }

\* uuid.uuid4() returns a value it never returned before.  Nothing but their
\* equality is used of these values, so the model names each after the job it
\* is drawn for and the place that draws it: create_trailer (1),
\* download_s3_file (2) or generate_basic_trailer (3)
Uuid4(job, site) == 3 * (job - 1) + site

\* one component of a path: a fixed name, or a name built from a number
Comp(name, n) == [name |-> name, n |-> n]

\* settings.PROCESSING_TEMP_BASE_DIR
PROCESSING_TEMP_BASE_DIR == <<Comp("tmp", 0), Comp("clipsai_processing", 0)>>

\* settings.OUTPUT_TRAILER_STORAGE_DIR
OUTPUT_TRAILER_STORAGE_DIR == <<Comp("tmp", 0), Comp("clipsai_trailers_output", 0)>>

\* base_temp_dir of generate_basic_trailer
BaseTempDir == <<Comp("tmp", 0), Comp("clipsai_trailers", 0)>>

\* a variant that gives every job the same directory
BaseProcessingDirShared(id) == Append(PROCESSING_TEMP_BASE_DIR, Comp("processing_id", 0))

\* os.path.join(settings.PROCESSING_TEMP_BASE_DIR, processing_id)
BaseProcessingDir(id) == Append(PROCESSING_TEMP_BASE_DIR, Comp("processing_id", id))

\* os.path.join(local_temp_dir, str(uuid.uuid4()))
DownloadInstanceDir(local_temp_dir, u) == Append(local_temp_dir, Comp("uuid4", u))

\* os.path.join(download_instance_dir, original_filename)
DownloadedFilePath(dir) == Append(dir, Comp("original_filename", 0))

\* os.path.join(base_temp_dir, f"trailer_{uuid.uuid4().hex}")
TempDirPath(u) == Append(BaseTempDir, Comp("trailer_", u))

\* os.path.join(temp_dir_path, f"clip_{i}.mp4")
TempClipPath(dir, idx) == Append(dir, Comp("clip_", idx))

\* os.path.join(output_trailer_base_dir, f"{processing_id}_trailer.mp4")
FinalTrailerPath(id) == Append(OUTPUT_TRAILER_STORAGE_DIR, Comp("_trailer.mp4", id))

\* the directories on the way to path p, and p
WithParents(p) == { SubSeq(p, 1, k) : k \in 1..Len(p) }

\* the directories all jobs share: every job makes them if they are missing
\* and none removes them, so the service is taken to start with them present
BaseDirs ==
    WithParents(PROCESSING_TEMP_BASE_DIR)
        \cup WithParents(OUTPUT_TRAILER_STORAGE_DIR)
        \cup WithParents(BaseTempDir)

\* path p is directory d or lies below it
PathUnder(p, d) == Len(d) <= Len(p) /\ SubSeq(p, 1, Len(d)) = d

\* shutil.rmtree(d) and FileSystemManager.delete_dir(d): d and all below it go
RemoveTree(files, d) == { p \in files : ~PathUnder(p, d) }

\* a variant of the test of parsed_url that accepts every locator
AcceptedAlways(parsed_url) == TRUE

\* the negation of "if not parsed_url"
Accepted(parsed_url) == parsed_url # ParsedNone

\* a variant that gives every job the same id
NewTaskFixedId(url, id) ==
    [s3_url |-> url, processing_id |-> 0, tpc |-> "scheduled",
     local_movie_path |-> <<>>, temp_dir_path |-> <<>>, generated |-> FALSE]

\* background_tasks.add_task(process_trailer_generation_task, ...): the job,
\* which has not started
NewTask(url, id) ==
    [s3_url |-> url, processing_id |-> id, tpc |-> "scheduled",
     local_movie_path |-> <<>>, temp_dir_path |-> <<>>, generated |-> FALSE]

\* the response of a rejected request: HTTPException(400, detail)
BadRequest ==
    [status_code |-> 400, message |-> "Invalid S3 URL format.",
     processing_id |-> 0, s3_movie_url |-> <<>>]

\* BackgroundTaskResponse(message, processing_id, s3_movie_url)
BackgroundTaskResponse(id, url) ==
    [status_code |-> 200,
     message |-> "Trailer generation task started in background.",
     processing_id |-> id, s3_movie_url |-> url]

ServiceInit ==
    /\ requests = <<>>
    /\ responses = <<>>
    /\ tasks = <<>>
    /\ uuid4Count = 0
    /\ fs = BaseDirs
    /\ store = {}
    /\ s3_url = <<>>
    /\ parsed = NotParsed
    /\ NoS3Call
    /\ NoClipCall
    /\ NoProgram

\* POST /generate-trailer/ with one locator
CreateTrailer ==
    /\ Len(requests) < MaxRequests
    /\ \E url \in RequestLocators :
          /\ requests' = Append(requests, url)
          /\ IF Accepted(ParseS3Url(url))
             THEN /\ uuid4Count' = uuid4Count + 1
                  /\ tasks' = Append(tasks, NewTask(url, Uuid4(Len(tasks) + 1, 1)))
                  /\ responses' =
                        Append(responses,
                               BackgroundTaskResponse(Uuid4(Len(tasks) + 1, 1), url))
             ELSE /\ responses' = Append(responses, BadRequest)
                  /\ UNCHANGED <<tasks, uuid4Count>>
    /\ UNCHANGED <<fs, store>>
    /\ UNCHANGED <<parseVars, s3Vars, clipVars>>
    /\ UNCHANGED progVars

\* the job has returned: its local variables are gone
TaskReturned(t) == [NewTask(t.s3_url, t.processing_id) EXCEPT !.tpc = "done"]

\* job k moves to position to
TaskGoto(k, to) == tasks' = [tasks EXCEPT ![k].tpc = to]

\* os.makedirs(base_processing_dir, exist_ok=True)
TaskMakeDirs(k) ==
    /\ tasks[k].tpc = "scheduled"
    /\ \/ /\ fs' = fs \cup WithParents(BaseProcessingDir(tasks[k].processing_id))
          /\ TaskGoto(k, "download")
       \/ /\ UNCHANGED fs
          /\ TaskGoto(k, "cleanup")
    /\ UNCHANGED <<requests, responses, uuid4Count, store>>
    /\ UNCHANGED <<parseVars, s3Vars, clipVars>>
    /\ UNCHANGED progVars

\* download_s3_file(s3_url, base_processing_dir): the file is written in a new
\* directory below the job's directory; when the directory cannot be made, or
\* when the transfer fails or raises, the job goes to its cleanup
TaskDownload(k) ==
    /\ tasks[k].tpc = "download"
    /\ uuid4Count' = uuid4Count + 1
    /\ LET dir == DownloadInstanceDir(BaseProcessingDir(tasks[k].processing_id),
                                      Uuid4(k, 2))
       IN \/ /\ fs' = fs \cup WithParents(DownloadedFilePath(dir))
             /\ tasks' = [tasks EXCEPT ![k].tpc = "pipeline",
                                       ![k].local_movie_path = DownloadedFilePath(dir)]
          \/ /\ fs' = fs \cup WithParents(dir)
             /\ TaskGoto(k, "cleanup")
          \/ /\ UNCHANGED fs
             /\ TaskGoto(k, "cleanup")
    /\ UNCHANGED <<requests, responses, store>>
    /\ UNCHANGED <<parseVars, s3Vars, clipVars>>
    /\ UNCHANGED progVars

\* os.makedirs(output_trailer_base_dir) and the start of generate_basic_trailer
\* up to the creation of its workspace; a failure before the workspace exists
\* sends the job to its cleanup
TaskStartPipeline(k) ==
    /\ tasks[k].tpc = "pipeline"
    /\ \/ /\ uuid4Count' = uuid4Count + 1
          /\ fs' = fs \cup WithParents(OUTPUT_TRAILER_STORAGE_DIR)
                      \cup WithParents(TempDirPath(Uuid4(k, 3)))
          /\ tasks' = [tasks EXCEPT ![k].tpc = "trim",
                                    ![k].temp_dir_path = TempDirPath(Uuid4(k, 3))]
       \/ /\ fs' = fs \cup WithParents(OUTPUT_TRAILER_STORAGE_DIR)
          /\ TaskGoto(k, "cleanup")
          /\ UNCHANGED uuid4Count
       \/ /\ TaskGoto(k, "cleanup")
          /\ UNCHANGED <<fs, uuid4Count>>
    /\ UNCHANGED <<requests, responses, store>>
    /\ UNCHANGED <<parseVars, s3Vars, clipVars>>
    /\ UNCHANGED progVars

\* transcription, clip finding and trimming: a clip file is written in the
\* workspace, or no clip is
TaskTrim(k) ==
    /\ tasks[k].tpc = "trim"
    /\ \/ /\ fs' = fs \cup {TempClipPath(tasks[k].temp_dir_path, 0)}
          /\ TaskGoto(k, "concat")
       \/ /\ UNCHANGED fs
          /\ TaskGoto(k, "pipeline_cleanup")
    /\ UNCHANGED <<requests, responses, uuid4Count, store>>
    /\ UNCHANGED <<parseVars, s3Vars, clipVars>>
    /\ UNCHANGED progVars

\* MediaEditor.concatenate writes the output file and returns it, or writes it
\* and fails, or fails without writing it
TaskConcat(k) ==
    /\ tasks[k].tpc = "concat"
    /\ \/ /\ fs' = fs \cup {FinalTrailerPath(tasks[k].processing_id)}
          /\ tasks' = [tasks EXCEPT ![k].tpc = "pipeline_cleanup",
                                    ![k].generated = TRUE]
       \/ /\ fs' = fs \cup {FinalTrailerPath(tasks[k].processing_id)}
          /\ TaskGoto(k, "pipeline_cleanup")
       \/ /\ UNCHANGED fs
          /\ TaskGoto(k, "pipeline_cleanup")
    /\ UNCHANGED <<requests, responses, uuid4Count, store>>
    /\ UNCHANGED <<parseVars, s3Vars, clipVars>>
    /\ UNCHANGED progVars

\* the finally block of generate_basic_trailer, then the job's test of what
\* the pipeline returned
TaskPipelineCleanup(k) ==
    /\ tasks[k].tpc = "pipeline_cleanup"
    /\ \/ fs' = RemoveTree(fs, tasks[k].temp_dir_path)
       \/ UNCHANGED fs
    /\ IF tasks[k].generated /\ FinalTrailerPath(tasks[k].processing_id) \in fs
       THEN TaskGoto(k, "upload")
       ELSE TaskGoto(k, "cleanup")
    /\ UNCHANGED <<requests, responses, uuid4Count, store>>
    /\ UNCHANGED <<parseVars, s3Vars, clipVars>>
    /\ UNCHANGED progVars

\* upload_file_to_s3(final_trailer_path, S3_UPLOAD_BUCKET, s3_trailer_key)
TaskUpload(k) ==
    /\ tasks[k].tpc = "upload"
    /\ \/ /\ store' = store \cup {S3TrailerKey(tasks[k].processing_id)}
          /\ TaskGoto(k, "remove_local")
       \/ /\ UNCHANGED store
          /\ TaskGoto(k, "cleanup")
    /\ UNCHANGED <<requests, responses, uuid4Count, fs>>
    /\ UNCHANGED <<parseVars, s3Vars, clipVars>>
    /\ UNCHANGED progVars

\* os.remove(final_trailer_path)
TaskRemoveLocal(k) ==
    /\ tasks[k].tpc = "remove_local"
    /\ \/ fs' = fs \ {FinalTrailerPath(tasks[k].processing_id)}
       \/ UNCHANGED fs
    /\ TaskGoto(k, "cleanup")
    /\ UNCHANGED <<requests, responses, uuid4Count, store>>
    /\ UNCHANGED <<parseVars, s3Vars, clipVars>>
    /\ UNCHANGED progVars

\* the finally block of process_trailer_generation_task
TaskCleanup(k) ==
    /\ tasks[k].tpc = "cleanup"
    /\ \/ fs' = RemoveTree(fs, BaseProcessingDir(tasks[k].processing_id))
       \/ UNCHANGED fs
    /\ tasks' = [tasks EXCEPT ![k] = TaskReturned(@)]
    /\ UNCHANGED <<requests, responses, uuid4Count, store>>
    /\ UNCHANGED <<parseVars, s3Vars, clipVars>>
    /\ UNCHANGED progVars

\* one step of job k
TaskStep(k) ==
    \/ TaskMakeDirs(k)
    \/ TaskDownload(k)
    \/ TaskStartPipeline(k)
    \/ TaskTrim(k)
    \/ TaskConcat(k)
    \/ TaskPipelineCleanup(k)
    \/ TaskUpload(k)
    \/ TaskRemoveLocal(k)
    \/ TaskCleanup(k)

ServiceNext ==
    \/ CreateTrailer
    \/ \E k \in 1..Len(tasks) : TaskStep(k)

\* requests arrive at any time and the jobs they schedule run interleaved
SpecService == ServiceInit /\ [][ServiceNext]_vars

\* ---- one server process ----------------------------------------------------
\* uvicorn.run(app, ...) serves the application with one process and one event
\* loop.  process_trailer_generation_task is an `async def` without any await,
\* and a background task that is a coroutine function is awaited on the event
\* loop: from its first statement to its return the job holds the loop, and
\* neither a request handler nor another job runs in between.

\* job k has started and has not returned
Occupied(k) == tasks[k].tpc \notin {"scheduled", "done"}

\* the event loop is not held by a job other than k
LoopFreeFor(k) == \A j \in 1..Len(tasks) : j # k => ~Occupied(j)

\* create_trailer runs when the loop is free
LoopCreateTrailer ==
    /\ LoopFreeFor(0)
    /\ CreateTrailer

\* one step of job k on the event loop
LoopTaskStep(k) ==
    /\ LoopFreeFor(k)
    /\ TaskStep(k)

LoopNext ==
    \/ LoopCreateTrailer
    \/ \E k \in 1..Len(tasks) : LoopTaskStep(k)

\* the service as `uvicorn.run(app, host="0.0.0.0", port=8000)` runs it
SpecLoop == ServiceInit /\ [][LoopNext]_vars

\* ---- properties -----------------------------------------------------------

\* the run was ended by one of the steps C1 lists: transcription absent, no
\* clips found, every trim failed, concatenation absent, an unexpected error
\* raised by a collaborator, or success
C1_ListedEnding ==
    \/ failure \in {"TranscriptionFailed", "NoClipsFound", "AllTrimsFailed",
                     "ConcatFailed"}
    \/ failure = "Unexpected" /\ transcribeCalls = 1
    \/ result = "VideoFile"

\* C1 (as stated): on every run that passes validation, whichever of the
\* listed steps ended it, the workspace has been deleted exactly once when
\* the call returns: one delete_dir call, and the directory is gone.
C1_DeletedExactlyOnce ==
    (Returned /\ Validated /\ C1_ListedEnding) =>
        (deleteCalls = 1 /\ ~wsExists)

\* C1 (amended): delete_dir is never called more than once; on every run that
\* passes validation and returns, it has been called exactly once if the
\* workspace directory was created and not at all otherwise, whichever step
\* ended the run, and the directory is gone unless that one call raised.
C1_CleanupAttemptedOnce ==
    /\ deleteCalls <= 1
    /\ (Returned /\ Validated) =>
          /\ deleteCalls = (IF wsCreated THEN 1 ELSE 0)
          /\ deleteFailed = wsExists
          /\ deleteFailed => wsCreated

\* a run ended by concatenate raising, with the workspace deleted once
C1_Witness ==
    /\ Returned
    /\ failure = "Unexpected"
    /\ Len(concatCalls) = 1
    /\ deleteCalls = 1
    /\ ~wsExists

\* C2: for a non-empty discovered list and n > 0 the selection has length
\* min(n, len), is sorted by score descending, is made of the highest-scoring
\* clips, and holds the clips of each score in discovery order (the earliest
\* discovered ones of that score).
C2_SelectTopN ==
    (HasClips /\ num_clips_to_select > 0) =>
        /\ Len(selected_clips) = Min(num_clips_to_select, Len(found))
        /\ SortedDesc(selected_clips)
        /\ \A v \in 1..MaxScore :
              /\ IsPrefix(WithScore(selected_clips, v), WithScore(found, v))
              /\ WithScore(selected_clips, v) # WithScore(found, v) =>
                    \A j \in 1..Len(selected_clips) : selected_clips[j].score >= v

\* two different clips of equal score, discovered after a lower-scoring one,
\* are selected in discovery order
C2_Witness ==
    /\ HasClips
    /\ num_clips_to_select = 2
    /\ Len(found) = 3
    /\ found[1].score < found[2].score
    /\ found[2].score = found[3].score
    /\ found[2] # found[3]
    /\ selected_clips = <<found[2], found[3]>>

\* C3: for a non-empty discovered list and n <= 0 the selection is the whole
\* discovered list sorted by score descending: same clips, same multiplicity,
\* equal scores in discovery order.
C3_SelectAll ==
    (HasClips /\ num_clips_to_select <= 0) =>
        /\ Len(selected_clips) = Len(found)
        /\ SortedDesc(selected_clips)
        /\ \A v \in 1..MaxScore :
              WithScore(selected_clips, v) = WithScore(found, v)

\* n = 0 with three clips discovered out of order: all three are selected
C3_Witness ==
    /\ HasClips
    /\ num_clips_to_select = 0
    /\ Len(found) = 3
    /\ found[1].score < found[3].score
    /\ Len(selected_clips) = 3

\* C4: concatenate is never invoked twice, and when trim returned a handle for
\* some but not all of the selected clips it has been invoked exactly once,
\* with exactly the handles of the successful trims, ordered as their clips
\* are in the selected sequence.
C4_PartialTrim ==
    /\ Len(concatCalls) <= 1
    /\ (PastTrimming /\ OkTrims # {} /\ OkTrims # 1..Len(selected_clips)) =>
          /\ Len(trimCalls) = Len(selected_clips)
          /\ Len(concatCalls) = 1
          /\ concatCalls[1].media_files = SurvivingHandles
          /\ LET files == concatCalls[1].media_files
             IN \A a, b \in 1..Len(files) :
                   /\ TrimCallMatches(files[a].path.name + 1)
                   /\ a < b => files[a].path.name < files[b].path.name

\* three clips selected, the second trim fails, concatenate gets two handles
C4_Witness ==
    /\ PastTrimming
    /\ Len(selected_clips) = 3
    /\ OkTrims = {1, 3}
    /\ Len(concatCalls) = 1
    /\ Len(concatCalls[1].media_files) = 2

\* C5: when every trim call returned a failure, trim has been called once for
\* each selected clip, concatenate has not been invoked, and the result is
\* None.
C5_AllTrimsFail ==
    (PastTrimming /\ OkTrims = {}) =>
        /\ Len(trimCalls) = Len(selected_clips)
        /\ \A j \in 1..Len(trimCalls) : TrimCallMatches(j)
        /\ concatCalls = <<>>
        /\ result = "None"

\* three clips selected, three failed trims, the call has returned None
C5_Witness ==
    /\ Returned
    /\ PastTrimming
    /\ OkTrims = {}
    /\ Len(trimCalls) = 3
    /\ result = "None"

\* C6: when find_clips returns an empty or absent list the run ends there as
\* "no clips found": the result is None and neither trim nor concatenate is
\* ever invoked.
C6_NoClipsFound ==
    (findReturn \in {"list", "None"} /\ found = <<>>) =>
        /\ result = "None"
        /\ failure = "NoClipsFound"
        /\ trimCalls = <<>>
        /\ concatCalls = <<>>
        /\ pc \in {"cleanup", "done"}

\* find_clips returned the empty list and the call has returned
C6_Witness ==
    /\ Returned
    /\ findReturn = "list"
    /\ found = <<>>
    /\ Len(findCalls) = 1

\* C7: when transcribe returns None the result is None and find_clips, trim
\* and concatenate are never invoked.
C7_TranscriptionAbsent ==
    (transcription = "None") =>
        /\ result = "None"
        /\ findCalls = <<>>
        /\ trimCalls = <<>>
        /\ concatCalls = <<>>
        /\ pc \in {"cleanup", "done"}

\* transcribe returned None and the call has returned
C7_Witness ==
    /\ Returned
    /\ transcription = "None"
    /\ transcribeCalls = 1

\* C8: when the source does not exist or the output's parent directory is
\* invalid, the call stops in validation: no workspace directory is created,
\* no deletion is attempted, no collaborator is invoked, and None is returned.
C8_ValidationFailure ==
    (~Validated) =>
        /\ pc \in {"validate_source", "validate_output", "done"}
        /\ mkdirCalls = 0
        /\ ~wsCreated
        /\ ~wsExists
        /\ deleteCalls = 0
        /\ transcribeCalls = 0
        /\ findCalls = <<>>
        /\ trimCalls = <<>>
        /\ concatCalls = <<>>
        /\ ~raised
        /\ pc = "done" => result = "None"

\* the source exists, the output's parent directory is invalid, None returned
C8_Witness ==
    /\ Returned
    /\ srcExists
    /\ ~outParentOk
    /\ failure = "InvalidOutput"
    /\ result = "None"

\* C9: the selected sequence is score-descending; the j-th trim call carries
\* the start and end time of the j-th selected clip and the destination
\* clip_<j-1>.mp4 in the workspace, whatever happened to earlier trims;
\* concatenate receives the returned handles in call order and writes to the
\* requested output path with overwrite enabled.
C9_TrimOrder ==
    /\ SortedDesc(selected_clips)
    /\ Len(trimCalls) <= Len(selected_clips)
    /\ \A j \in 1..Len(trimCalls) :
          /\ TrimCallMatches(j)
          /\ trimCalls[j].trimmed_media_file_path = ClipPath(j - 1)
          /\ trimCalls[j].overwrite
          /\ trimCalls[j].returned.kind = "TemporalMediaFile" =>
                trimCalls[j].returned.path = ClipPath(j - 1)
    /\ \A c \in 1..Len(concatCalls) :
          /\ concatCalls[c].media_files = SurvivingHandles
          /\ concatCalls[c].concatenated_media_file_path = "output_trailer_path"
          /\ concatCalls[c].overwrite

\* the first of three trims fails: the survivors are clip_1 and clip_2
C9_Witness ==
    /\ Len(trimCalls) = 3
    /\ OkTrims = {2, 3}
    /\ Len(concatCalls) = 1
    /\ concatCalls[1].media_files =
          <<MediaHandle(ClipPath(1)), MediaHandle(ClipPath(2))>>
    /\ selected_clips[1].score > selected_clips[3].score

\* C10: no exception leaves generate_basic_trailer: when the call is over it
\* has returned the produced output or None.
C10_NeverRaises ==
    pc = "done" => (~raised /\ result \in {"None", "VideoFile"})

\* the run went through concatenate, and concatenate returned (rather than
\* raised) something that is not a video handle
ConcatReturnedNoVideo ==
    /\ concatCalls # <<>>
    /\ concatCalls[1].returned \in {"None", "other"}

\* C11 as stated: after generate_basic_trailer returns, on any path, the
\* workspace directory and every per-clip file in it no longer exist.  It fails
\* when delete_dir raises in the finally clause: the error is logged and the
\* directory stays.
C11_WorkspaceGone ==
    Returned => (~wsExists /\ wsFiles = {})

\* C11 amended: after generate_basic_trailer returns, on any path, the
\* workspace directory and every per-clip file in it no longer exist, unless
\* delete_dir itself raised; and a workspace that was created has then seen
\* exactly one delete_dir call.
C11_WorkspaceGoneUnlessDeleteFailed ==
    Returned =>
        /\ ~deleteFailed => (~wsExists /\ wsFiles = {})
        /\ wsCreated => deleteCalls = 1
        /\ deleteFailed => wsExists

\* a returned run with a partial trim failure whose workspace, per-clip files
\* included, was deleted
C11_Witness ==
    /\ Returned
    /\ wsCreated
    /\ OkTrims # {}
    /\ Cardinality(OkTrims) < Len(trimCalls)
    /\ deleteCalls = 1
    /\ ~deleteFailed
    /\ ~wsExists
    /\ wsFiles = {}

\* C12 as stated: when concatenate returns an absent result or anything that
\* is not a video handle, generate_basic_trailer returns the absent result,
\* concatenate has been invoked exactly once and the workspace is deleted.  It
\* fails when delete_dir raises.
C12_ConcatFailureDeletes ==
    (Returned /\ ConcatReturnedNoVideo) =>
        /\ result = "None"
        /\ Len(concatCalls) = 1
        /\ ~wsExists

\* C12 amended: when concatenate returns an absent result or anything that is
\* not a video handle (which happens only after at least one successful trim),
\* generate_basic_trailer returns the absent result, concatenate has been
\* invoked exactly once, and delete_dir has been called exactly once on the
\* workspace, which is gone unless that call raised.
C12_ConcatFailure ==
    /\ ConcatReturnedNoVideo => (OkTrims # {} /\ Len(concatCalls) = 1)
    /\ (Returned /\ ConcatReturnedNoVideo) =>
          /\ result = "None"
          /\ failure = "ConcatFailed"
          /\ deleteCalls = 1
          /\ ~deleteFailed => (~wsExists /\ wsFiles = {})

\* a returned run where concatenate returned a truthy object that is not a
\* video handle after two successful trims
C12_Witness ==
    /\ Returned
    /\ concatCalls # <<>>
    /\ concatCalls[1].returned = "other"
    /\ Cardinality(OkTrims) = 2
    /\ result = "None"
    /\ ~wsExists

\* C13: the finally clause removes only the workspace: its step leaves the
\* file at the output path as concatenate left it.
C13_CleanupKeepsOutput ==
    [][(pc = "cleanup" /\ pc' = "done") => outFile' = outFile]_vars

\* a successful run whose output file is on disk after the workspace was
\* deleted
C13_Witness ==
    /\ Returned
    /\ result = "VideoFile"
    /\ outFile = "written"
    /\ deleteCalls = 1
    /\ ~wsExists

\* the job is over: the finally clause has run
JobFinished == jpc = "job_done"

\* C14 as stated: when download_s3_file returns absent, the Pipeline is never
\* invoked, no publish is attempted, and the job's directory is removed before
\* the job ends.  It fails when shutil.rmtree raises.
C14_FetchFailureRemoves ==
    (JobFinished /\ downloadResult = "None") =>
        /\ pipelineCalls = 0
        /\ uploadCalls = <<>>
        /\ ~jobDirExists

\* C14 amended: when download_s3_file returns absent, the Pipeline is never
\* invoked and no publish is attempted, and before the job ends shutil.rmtree
\* is called once on the job's directory, which is gone unless that call raised.
C14_FetchFailure ==
    downloadResult = "None" =>
        /\ pipelineCalls = 0
        /\ pc = "idle"
        /\ uploadCalls = <<>>
        /\ JobFinished => /\ rmtreeCalls = 1
                          /\ ~rmtreeFailed => ~jobDirExists

\* a finished job whose fetch returned absent and whose directory was removed
C14_Witness ==
    /\ JobFinished
    /\ downloadResult = "None"
    /\ pipelineCalls = 0
    /\ rmtreeCalls = 1
    /\ ~jobDirExists

\* C15 as stated: every execution of the job ends with the job's directory
\* removed.  It fails when shutil.rmtree raises: the error is logged and the
\* directory stays.
C15_JobDirRemoved ==
    JobFinished => ~jobDirExists

\* C15 amended: on every exit path the removal of the job's directory is the
\* final step: a job that made its directory calls shutil.rmtree on it exactly
\* once, nothing follows that call, and the directory is gone when the job ends
\* unless that call raised.
C15_JobDirRemovedUnlessRmtreeFailed ==
    /\ rmtreeCalls > 0 => JobFinished
    /\ JobFinished =>
          /\ downloadCalls = 1 => rmtreeCalls = 1
          /\ downloadCalls = 0 => rmtreeCalls = 0
          /\ ~rmtreeFailed => ~jobDirExists
          /\ rmtreeFailed => jobDirExists

\* a job ended by an unexpected error of generate_basic_trailer, with its
\* directory removed
C15_Witness ==
    /\ JobFinished
    /\ raised
    /\ jobCaught
    /\ rmtreeCalls = 1
    /\ ~jobDirExists

\* C16: no error escapes a job: whatever each step returns or raises, no
\* exception leaves process_trailer_generation_task, an exception raised by
\* generate_basic_trailer is caught by the job, and the job is never stuck
\* before its end.
C16_NoErrorEscapes ==
    /\ ~jobRaised
    /\ (JobFinished /\ raised) => jobCaught
    /\ ~JobFinished => ENABLED JobNext

\* a finished job in which upload_file_to_s3 raised, shutil.rmtree raised too,
\* and nothing propagated
C16_Witness ==
    /\ JobFinished
    /\ uploadResult = "raise"
    /\ jobCaught
    /\ rmtreeFailed
    /\ ~jobRaised

\* C17: upload_file_to_s3 is invoked only if generate_basic_trailer returned a
\* video handle and the file at the output path was on disk; a job whose
\* pipeline returned absent, raised, or left no output file never invokes it.
C17_PublishOnlyWithOutput ==
    /\ uploadCalls # <<>> =>
          /\ result = "VideoFile"
          /\ existsCheck = "True"
          /\ ~raised
    /\ (JobFinished /\ (result # "VideoFile" \/ existsCheck # "True")) =>
          (uploadCalls = <<>> /\ uploadResult = "unset")

\* a finished job whose pipeline returned a video handle without a file on
\* disk, and which did not publish
C17_Witness ==
    /\ JobFinished
    /\ result = "VideoFile"
    /\ existsCheck = "False"
    /\ uploadCalls = <<>>

\* C18: when the publish fails (upload_file_to_s3 returns absent or raises),
\* the local output file is left in place and still exists after the job has
\* finished and its directory has been deleted; the publish is not retried.
C18_PublishFailureKeepsFile ==
    uploadResult \in {"None", "raise"} =>
        /\ outFile = "written"
        /\ removeCalls = 0
        /\ Len(uploadCalls) = 1
        /\ published = {}

\* a finished job whose publish returned absent: directory removed, output
\* file still there
C18_Witness ==
    /\ JobFinished
    /\ uploadResult = "None"
    /\ outFile = "written"
    /\ rmtreeCalls = 1
    /\ ~jobDirExists

\* the key trailers/<jobId>/<jobId>_trailer.mp4
ExpectedKey ==
    [prefix |-> "trailers", dir |-> ProcessingId,
     name |-> [stem |-> ProcessingId, suffix |-> "_trailer.mp4"]]

\* C19 as stated: when the publish succeeds, the output has been published
\* under trailers/<jobId>/<jobId>_trailer.mp4 of the configured bucket and the
\* local file is deleted, so that after the job neither the local output file
\* nor the job's directory exists; the local file is never deleted before the
\* publish has succeeded.  It fails when os.remove raises OSError (logged, the
\* file stays) or shutil.rmtree raises.
C19_PublishSuccessDeletes ==
    /\ removeCalls > 0 => uploadResult = "url"
    /\ (JobFinished /\ uploadResult = "url") =>
          /\ published = {[bucket |-> UploadBucket, key |-> ExpectedKey]}
          /\ outFile = "absent"
          /\ ~jobDirExists

\* C19 amended: when the publish succeeds, the output has been published under
\* trailers/<jobId>/<jobId>_trailer.mp4 of the configured bucket and os.remove
\* is then called once on the local file; after the job the local file is gone
\* unless os.remove raised, and the job's directory is gone unless
\* shutil.rmtree raised; os.remove is never called before the publish has
\* succeeded.
C19_PublishSuccess ==
    /\ removeCalls > 0 => uploadResult = "url"
    /\ (existsCheck = "True" /\ outFile = "absent") =>
          (uploadResult = "url" /\ removeCalls = 1 /\ ~removeFailed)
    /\ uploadResult = "url" =>
          /\ published = {[bucket |-> UploadBucket, key |-> ExpectedKey]}
          /\ Len(uploadCalls) = 1
          /\ uploadCalls[1].bucket_name = UploadBucket
          /\ uploadCalls[1].s3_key = ExpectedKey
    /\ (JobFinished /\ uploadResult = "url") =>
          /\ removeCalls = 1
          /\ ~removeFailed => outFile = "absent"
          /\ removeFailed => outFile = "written"
          /\ ~rmtreeFailed => ~jobDirExists

\* a finished job that published, removed the local file and removed its
\* directory
C19_Witness ==
    /\ JobFinished
    /\ uploadResult = "url"
    /\ published # {}
    /\ removeCalls = 1
    /\ outFile = "absent"
    /\ ~jobDirExists

\* what holds of the stages that have run so far
StageOrderInv ==
    /\ pc # "idle" =>
          (pipelineCalls = 1 /\ downloadCalls = 1 /\ downloadResult = "path")
    /\ findCalls # <<>> =>
          (transcribeCalls = 1 /\ transcription \in {"no_utterances", "utterances"})
    /\ concatCalls # <<>> =>
          /\ selected_clips # <<>>
          /\ i = Len(selected_clips)
          /\ Len(trimCalls) = Len(selected_clips)
    /\ uploadCalls # <<>> =>
          /\ Len(concatCalls) = 1
          /\ concatCalls[1].returned = "VideoFile"
          /\ pc = "done"
    /\ (jpc = "job_cleanup" \/ JobFinished) => pc \in {"idle", "done"}
    /\ rmtreeCalls > 0 => JobFinished

\* what holds of each step: a stage never runs after a later stage has
\* started, and nothing runs after the job's cleanup
StageOrderStep ==
    /\ downloadCalls' # downloadCalls => pc = "idle"
    /\ transcribeCalls' # transcribeCalls => findCalls = <<>>
    /\ trimCalls' # trimCalls => concatCalls' = <<>>
    /\ concatCalls' # concatCalls => uploadCalls = <<>>
    /\ uploadCalls' # uploadCalls => rmtreeCalls = 0
    /\ JobFinished => UNCHANGED vars

\* C20: within one job the stage order is fixed: the fetch returns before
\* generate_basic_trailer starts; inside it transcription precedes clip
\* discovery, every selected clip is trimmed before concatenate is called, and
\* concatenate returns before the publish is attempted; the cleanup of the
\* job's directory comes after all of these.
C20_StageOrder ==
    []StageOrderInv /\ [][StageOrderStep]_vars

\* a finished job that went through every stage, with three trims
C20_Witness ==
    /\ JobFinished
    /\ downloadResult = "path"
    /\ transcribeCalls = 1
    /\ Len(findCalls) = 1
    /\ Len(trimCalls) = 3
    /\ Len(concatCalls) = 1
    /\ uploadResult = "url"
    /\ rmtreeCalls = 1

\* C29: nothing is retried: in one job download_s3_file, transcribe,
\* find_clips, concatenate and upload_file_to_s3 are each called at most once,
\* and trim is called at most once per selected clip, whatever fails.
C29_NothingRetried ==
    /\ downloadCalls <= 1
    /\ pipelineCalls <= 1
    /\ transcribeCalls <= 1
    /\ Len(findCalls) <= 1
    /\ Len(concatCalls) <= 1
    /\ Len(uploadCalls) <= 1
    /\ Len(trimCalls) <= Len(selected_clips)
    /\ \A j \in 1..Len(trimCalls) :
          /\ TrimCallMatches(j)
          /\ \A k \in 1..Len(trimCalls) :
                trimCalls[j].start_time = trimCalls[k].start_time => j = k

\* a finished job in which two of three trims failed and the publish failed,
\* each stage having been called once
C29_Witness ==
    /\ JobFinished
    /\ Len(selected_clips) = 3
    /\ Len(trimCalls) = 3
    /\ Cardinality(OkTrims) = 1
    /\ Len(concatCalls) = 1
    /\ uploadResult = "None"
    /\ Len(uploadCalls) = 1

\* C30: a failure of workspace cleanup is best-effort only: when delete_dir
\* raises, generate_basic_trailer raises nothing and returns what the stages
\* determined (the video handle iff concatenate returned one, absent
\* otherwise); when shutil.rmtree raises, the job still ends normally.
C30_CleanupFailureBestEffort ==
    /\ deleteFailed =>
          /\ pc = "done"
          /\ ~raised
          /\ result \in {"VideoFile", "None"}
          /\ result = "VideoFile" <=>
                (concatCalls # <<>> /\ concatCalls[1].returned = "VideoFile")
          /\ result = "None" <=> failure # "none"
    /\ rmtreeFailed => (JobFinished /\ ~jobRaised)

\* a finished job whose two cleanups both failed and which still produced and
\* published its output
C30_Witness ==
    /\ JobFinished
    /\ deleteFailed
    /\ rmtreeFailed
    /\ result = "VideoFile"
    /\ uploadResult = "url"
    /\ ~jobRaised

\* the locator is s3://<bucket>/<key>: the word s3, "://", a bucket that ends
\* at index b, is not empty and holds no "/", "?", "#" or bracket, one or more
\* "/", and a key that starts at index k with something other than "/", "?"
\* or "#"
S3Shape(url, b, k) ==
    /\ Len(url) >= 4
    /\ SubSeq(url, 1, 4) = <<"s3", ":", "/", "/">>
    /\ b >= 5
    /\ \A j \in 5..b : url[j] \notin {"/", "?", "["}
    /\ k >= b + 2
    /\ k <= Len(url)
    /\ \A j \in (b + 1)..(k - 1) : url[j] = "/"
    /\ url[k] \notin {"/", "?"}

\* the key that starts at index k: it runs to the next "?" or "#"
KeyFrom(url, k) ==
    LET ends == { e \in k..Len(url) : \A j \in k..e : url[j] # "?" }
    IN SubSeq(url, k, CHOOSE e \in ends : \A f \in ends : f <= e)

\* C24: parse_s3_url returns the pair (bucket, key) exactly when the locator
\* has scheme s3, a non-empty bucket and a key that is non-empty after
\* stripping leading slashes; for every other input it returns None; it never
\* raises (every call returns one of the two).
C24_ParseS3Url ==
    parsed # NotParsed =>
        /\ parsed.kind \in {"pair", "None"}
        /\ parsed.kind = "pair" <=>
              \E b \in 1..Len(s3_url), k \in 1..Len(s3_url) : S3Shape(s3_url, b, k)
        /\ \A b \in 1..Len(s3_url), k \in 1..Len(s3_url) :
              S3Shape(s3_url, b, k) =>
                  /\ parsed.bucket_name = SubSeq(s3_url, 5, b)
                  /\ parsed.key = KeyFrom(s3_url, k)
        /\ parsed.kind = "None" => (parsed.bucket_name = <<>> /\ parsed.key = <<>>)

\* a call that returned the pair (s3, s3) for s3://s3/s3
C24_Witness ==
    /\ s3_url = <<"s3", ":", "/", "/", "s3", "/", "s3">>
    /\ parsed = [kind |-> "pair", bucket_name |-> <<"s3">>, key |-> <<"s3">>]

\* the call of download_s3_file or upload_file_to_s3 has ended
S3Ended == s3pc \in {"returned", "raised"}

\* C25: download_s3_file reports every failure as None and never raises: an
\* invalid locator returns None without a client, a request or a directory
\* being made; a failed makedirs and every error of the transfer return None;
\* on success the returned path is named after the key's basename, inside the
\* one directory the call made.  It fails when boto3.client raises, which
\* happens outside the try block.
C25_DownloadNeverRaises ==
    s3Func = "download" =>
        /\ s3Return.kind \in {"unset", "None", "path"}
        /\ parsed = ParsedNone =>
              /\ s3Return.kind = "None"
              /\ madeDirs = {}
              /\ clientCalls = 0
              /\ storeCalls = <<>>
        /\ (S3Ended /\ madeDirs = {}) => s3Return.kind = "None"
        /\ (storeCalls # <<>> /\ storeCalls[1].outcome # "ok") =>
              s3Return.kind = "None"
        /\ s3Return.kind = "path" =>
              /\ Len(storeCalls) = 1
              /\ storeCalls[1].outcome = "ok"
              /\ madeDirs = {s3Return.path.dir}
              /\ s3Return.path.name = Basename(parsed.key)
              /\ s3Return.path.generated = 0

\* C26: upload_file_to_s3 returns None without a client or a request when the
\* local file does not exist; when it exists the call sends exactly one
\* upload request, returns s3://<bucket>/<key> when that succeeds and None
\* when it fails, and never raises.  It fails when boto3.client raises, which
\* happens outside the try block.
C26_UploadNeverRaises ==
    s3Func = "upload" =>
        /\ s3Return.kind \in {"unset", "None", "url"}
        /\ ~localFileExists =>
              /\ s3Return.kind = "None"
              /\ clientCalls = 0
              /\ storeCalls = <<>>
        /\ (localFileExists /\ S3Ended) =>
              /\ Len(storeCalls) = 1
              /\ storeCalls[1].op = "upload_file"
              /\ storeCalls[1].bucket = bucket_name
              /\ storeCalls[1].key = s3_key
              /\ storeCalls[1].outcome = "ok" =>
                    /\ s3Return.kind = "url"
                    /\ s3Return.url = UploadedUrl(bucket_name, s3_key)
              /\ storeCalls[1].outcome # "ok" => s3Return.kind = "None"

\* the five fields of a and b hold the same values
SameFields(a, b) ==
    /\ a.start_time = b.start_time
    /\ a.end_time = b.end_time
    /\ a.start_char = b.start_char
    /\ a.end_char = b.end_char
    /\ a.score = b.score

\* C27: Clip equality is structural: two Clips are equal exactly when their
\* five fields hold the same values, a Clip is never equal to a non-Clip, !=
\* is the negation of ==, and copy() returns a Clip equal to the original.  It
\* fails for a Clip with a NaN time or score, which is equal to nothing, not
\* even to its copy.
C27_StructuralEquality ==
    /\ clipCall.method = "eq" =>
          clipCall.returned =
              (clipCall.other.class = "Clip" /\ SameFields(clipSelf, clipCall.other))
    /\ clipCall.method = "ne" =>
          clipCall.returned = ~ClipEq(clipSelf, clipCall.other)
    /\ clipCall.method = "copy" =>
          /\ clipCall.other.class = "Clip"
          /\ SameFields(clipSelf, clipCall.other)
          /\ clipCall.returned

\* C28: a Clip is falsy exactly when at least one of start_time, end_time,
\* start_char and end_char is zero, and truthy otherwise; the score plays no
\* part.
C28_Truthiness ==
    clipCall.method = "bool" =>
        clipCall.returned =
            ~(\/ clipSelf.start_time = FloatOf(0)
              \/ clipSelf.end_time = FloatOf(0)
              \/ clipSelf.start_char = 0
              \/ clipSelf.end_char = 0)

\* bool() of a Clip with a zero score and no other zero field gave True
C28_Witness ==
    /\ clipCall.method = "bool"
    /\ clipCall.returned
    /\ clipSelf.score = FloatOf(0)

\* the locators that parse_s3_url accepts, among those requests carry
ParsingLocators == { url \in RequestLocators : ParseS3Url(url) # ParsedNone }

\* path p is one that job t works on: it lies in t's directory, in the
\* workspace of t's pipeline run, or it is t's output file
Uses(t, p) ==
    \/ PathUnder(p, BaseProcessingDir(t.processing_id))
    \/ t.temp_dir_path # <<>> /\ PathUnder(p, t.temp_dir_path)
    \/ p = FinalTrailerPath(t.processing_id)

\* the locations of two different jobs are different, and no directory of one
\* lies inside a directory of the other
DistinctLocations ==
    \A m, j \in 1..Len(tasks) :
        m # j =>
            LET a == tasks[m]
                b == tasks[j]
            IN /\ a.processing_id # b.processing_id
               /\ ~PathUnder(BaseProcessingDir(a.processing_id),
                             BaseProcessingDir(b.processing_id))
               /\ a.temp_dir_path # <<>> /\ b.temp_dir_path # <<>> =>
                     ~PathUnder(a.temp_dir_path, b.temp_dir_path)
               /\ a.temp_dir_path # <<>> =>
                     /\ ~PathUnder(a.temp_dir_path, BaseProcessingDir(b.processing_id))
                     /\ ~PathUnder(BaseProcessingDir(b.processing_id), a.temp_dir_path)
               /\ a.local_movie_path # <<>> => a.local_movie_path # b.local_movie_path
               /\ FinalTrailerPath(a.processing_id) # FinalTrailerPath(b.processing_id)
               /\ S3TrailerKey(a.processing_id) # S3TrailerKey(b.processing_id)

\* a step of job k, which is the one step that changes k's record, creates or
\* removes no path, and writes no key, of another job that has not ended
StepTouchesOwnOnly ==
    \A k \in 1..Len(tasks) :
        tasks'[k] # tasks[k] =>
            \A j \in 1..Len(tasks) :
                j # k /\ tasks[j].tpc # "done" =>
                    /\ \A p \in (fs \ fs') \cup (fs' \ fs) : ~Uses(tasks[j], p)
                    /\ S3TrailerKey(tasks[j].processing_id) \notin store' \ store

\* C21: for any interleaving of jobs with distinct ids, the jobs share no
\* location: their directories, pipeline workspaces, output paths and
\* published keys are pairwise distinct, and no step of one job, its cleanups
\* included, removes or writes a path another unfinished job works on.
C21_NoSharedLocation ==
    /\ []DistinctLocations
    /\ [][StepTouchesOwnOnly]_vars

\* one job has removed its directory while another, which has downloaded its
\* file and made its workspace, still has both
C21_Witness ==
    \E m, j \in 1..Len(tasks) :
        /\ m # j
        /\ tasks[m].tpc = "done"
        /\ S3TrailerKey(tasks[m].processing_id) \in store
        /\ BaseProcessingDir(tasks[m].processing_id) \notin fs
        /\ tasks[j].tpc = "concat"
        /\ tasks[j].local_movie_path \in fs
        /\ TempClipPath(tasks[j].temp_dir_path, 0) \in fs

\* the jobs scheduled with the id an acknowledgment carries
JobsOf(response) ==
    { k \in 1..Len(tasks) : tasks[k].processing_id = response.processing_id }

\* every request with a locator that parses has been acknowledged with its
\* locator and an id that belongs to exactly one job, scheduled for that
\* locator, and to no other acknowledgment
AcknowledgedOnce ==
    /\ Len(responses) = Len(requests)
    /\ \A m \in 1..Len(requests) :
          requests[m] \in ParsingLocators =>
              /\ responses[m].status_code = 200
              /\ responses[m].s3_movie_url = requests[m]
              /\ Cardinality(JobsOf(responses[m])) = 1
              /\ \A k \in JobsOf(responses[m]) : tasks[k].s3_url = requests[m]
              /\ \A h \in 1..Len(responses) :
                    h # m /\ responses[h].status_code = 200 =>
                        responses[h].processing_id # responses[m].processing_id

\* when a request is acknowledged its job has not started and its id was never
\* drawn before, and nothing changes an acknowledgment already given
AcknowledgedBeforeWork ==
    /\ \A m \in 1..Len(responses) :
          /\ Len(responses') >= Len(responses)
          /\ responses'[m] = responses[m]
    /\ Len(responses') > Len(responses) /\ responses'[Len(responses')].status_code = 200 =>
          /\ \A k \in 1..Len(tasks) :
                tasks[k].processing_id # responses'[Len(responses')].processing_id
          /\ \A k \in 1..Len(tasks') :
                tasks'[k].processing_id = responses'[Len(responses')].processing_id =>
                    tasks'[k].tpc = "scheduled"
          /\ fs' = fs
          /\ store' = store

\* C22: a request to create_trailer with a locator that parses always
\* succeeds: exactly one job is scheduled for that locator under a fresh id,
\* the acknowledgment carries that id and the same locator and is given before
\* the job does any work, and nothing later changes it.
C22_ValidRequestAcknowledged ==
    /\ []AcknowledgedOnce
    /\ [][AcknowledgedBeforeWork]_vars

\* an acknowledged job has ended without having downloaded its file, and its
\* acknowledgment stands
C22_Witness ==
    \E m \in 1..Len(responses) :
        /\ responses[m].status_code = 200
        /\ responses[m].s3_movie_url = requests[m]
        /\ \E k \in JobsOf(responses[m]) :
              tasks[k].tpc = "done" /\ S3TrailerKey(tasks[k].processing_id) \notin store

\* the requests whose locator parses
ValidRequests == { m \in 1..Len(requests) : requests[m] \in ParsingLocators }

\* every request with a locator that does not parse was answered 400, and
\* there are only as many jobs as requests with a locator that parses
RejectedUnscheduled ==
    /\ \A m \in 1..Len(requests) :
          requests[m] \notin ParsingLocators =>
              /\ m <= Len(responses)
              /\ responses[m].status_code = 400
              /\ responses[m].message = "Invalid S3 URL format."
    /\ Len(tasks) = Cardinality(ValidRequests)

\* a request with a locator that does not parse schedules nothing and draws
\* no id
RejectedDrawsNoId ==
    Len(requests') > Len(requests)
        /\ requests'[Len(requests')] \notin ParsingLocators =>
            /\ tasks' = tasks
            /\ uuid4Count' = uuid4Count

\* C23: a request to create_trailer whose locator does not parse is rejected
\* with a 400 "Invalid S3 URL format." error; no job is scheduled and no job
\* id is generated for it.
C23_InvalidRequestRejected ==
    /\ []RejectedUnscheduled
    /\ [][RejectedDrawsNoId]_vars

\* a request was rejected after another had been accepted
C23_Witness ==
    \E m \in 1..Len(requests) :
        /\ m > 1
        /\ requests[m] \notin ParsingLocators
        /\ responses[m].status_code = 400
        /\ Len(tasks) = m - 1


\* C34: once discovery has returned a non-empty list, the selection is not
\* empty whatever num_clips_to_select is (positive, zero or negative): the run
\* never ends with "no clips selected", and it makes at least one trim call.
C34_SelectionNeverEmpty ==
    HasClips =>
        /\ selected_clips # <<>>
        /\ failure # "NoClipsSelected"
        /\ pc \in {"concat", "cleanup", "done"} => trimCalls # <<>>

\* a negative num_clips_to_select: the run has ended after trimming
C34_Witness ==
    /\ HasClips
    /\ num_clips_to_select < 0
    /\ pc = "done"
    /\ trimCalls # <<>>

\* C35: a transcription that is present but has no utterances is not a
\* failure: the run goes on, and ClipFinder.find_clips is called exactly once,
\* with that transcription.
C35_EmptyTranscriptPassedOn ==
    (transcription = "no_utterances" /\ pc # "find_clips") =>
        /\ failure # "TranscriptionFailed"
        /\ findCalls = <<"no_utterances">>

\* find_clips was given a transcription without utterances, and the run went
\* on to trim a clip it found
C35_Witness ==
    /\ transcription = "no_utterances"
    /\ findCalls = <<"no_utterances">>
    /\ trimCalls # <<>>
    /\ pc = "done"

\* no step of the run raised
NoStepRaised ==
    /\ ~raised
    /\ failure # "Unexpected"
    /\ ~deleteFailed

\* everything went well: both validations passed, the transcription was
\* present, discovery returned a non-empty list, a trim returned a media
\* handle, concatenate was called once and returned a video handle, and no
\* step raised
AllWentWell ==
    /\ Validated
    /\ transcription \in {"no_utterances", "utterances"}
    /\ HasClips
    /\ OkTrims # {}
    /\ Len(concatCalls) = 1
    /\ concatCalls[1].returned = "VideoFile"
    /\ NoStepRaised

\* C37: generate_basic_trailer returns a produced output if and only if the
\* validation passed, the transcription was present, discovery returned a
\* non-empty list, at least one trim returned a media handle, concatenate was
\* called exactly once and returned a video handle, and no step raised; in
\* every other case it returns the absent result.  It fails when
\* os.makedirs(base_temp_dir) raises, which leaves the call without any
\* result, and when the deletion of the workspace raises after a produced
\* output, which is returned all the same.
C37_OutputIffAllWentWell ==
    pc = "done" =>
        /\ (~raised /\ result = "VideoFile") <=> AllWentWell
        /\ ~AllWentWell => (~raised /\ result = "None")

\* a call of MediaEditor.trim raised
TrimRaised ==
    \E j \in 1..Len(trimCalls) : trimCalls[j].returned.kind = "raised"

\* C38 as stated: if MediaEditor.trim raises for a selected clip, no later
\* selected clip is trimmed, concatenate is never invoked even if earlier trims
\* succeeded, generate_basic_trailer returns the absent result, and the
\* workspace is still deleted.  It fails when delete_dir raises in the finally
\* clause: the error is logged and the directory stays.
C38_TrimRaiseEndsRun ==
    TrimRaised =>
        /\ trimCalls[Len(trimCalls)].returned.kind = "raised"
        /\ concatCalls = <<>>
        /\ pc = "done" => (~raised /\ result = "None" /\ ~wsExists /\ wsFiles = {})

\* C38 amended: if MediaEditor.trim raises for a selected clip, no later
\* selected clip is trimmed, concatenate is never invoked even if earlier trims
\* succeeded, generate_basic_trailer returns the absent result, and delete_dir
\* is called once on the workspace, which is gone unless delete_dir raised.
C38_TrimRaiseEndsRunDeleteAttempted ==
    TrimRaised =>
        /\ trimCalls[Len(trimCalls)].returned.kind = "raised"
        /\ Cardinality({ j \in 1..Len(trimCalls) :
                            trimCalls[j].returned.kind = "raised" }) = 1
        /\ concatCalls = <<>>
        /\ pc = "done" =>
              /\ ~raised
              /\ result = "None"
              /\ failure = "Unexpected"
              /\ deleteCalls = 1
              /\ ~deleteFailed => (~wsExists /\ wsFiles = {})

\* the second trim raised after the first had returned a media handle, with a
\* third clip selected: the run ended with two trim calls, no concatenation
\* and the workspace deleted
C38_Witness ==
    /\ pc = "done"
    /\ Len(selected_clips) = 3
    /\ Len(trimCalls) = 2
    /\ trimCalls[1].returned.kind = "TemporalMediaFile"
    /\ trimCalls[2].returned.kind = "raised"
    /\ concatCalls = <<>>
    /\ result = "None"
    /\ deleteCalls = 1
    /\ ~wsExists

\* the clip is falsy, as Clip.__bool__ has it
Falsy(c) == ~ClipBool(AsClipObject(c))

\* the place of the k-th discovered clip in the order of descending score,
\* clips of equal score in discovery order
Rank(k) ==
    1 + Cardinality({ q \in 1..Len(found) :
                         \/ found[q].score > found[k].score
                         \/ found[q].score = found[k].score /\ q < k })

\* C39: a falsy Clip is treated like any other clip: it counts toward the
\* non-empty check of the discovered list, it is selected exactly when its
\* place by score is within num_clips_to_select (or all clips are selected),
\* at that place, and when selected it is trimmed when the loop reaches it.
C39_FalsyClipTreatedAlike ==
    HasClips =>
        /\ failure # "NoClipsFound"
        /\ \A k \in 1..Len(found) :
              Falsy(found[k]) =>
                  IF num_clips_to_select <= 0 \/ Rank(k) <= num_clips_to_select
                  THEN /\ Rank(k) <= Len(selected_clips)
                       /\ selected_clips[Rank(k)] = found[k]
                       /\ i >= Rank(k) =>
                             /\ Len(trimCalls) >= Rank(k)
                             /\ trimCalls[Rank(k)].start_time = found[k].start_time
                             /\ trimCalls[Rank(k)].end_time = found[k].end_time
                  ELSE \A j \in 1..Len(selected_clips) : selected_clips[j] # found[k]

\* the falsy clip, discovered first and scored below the second one, was
\* selected second and trimmed after it
C39_Witness ==
    /\ pc = "done"
    /\ Len(found) >= 2
    /\ Falsy(found[1])
    /\ found[1].score < found[2].score
    /\ Len(selected_clips) >= 2
    /\ selected_clips[2] = found[1]
    /\ Len(trimCalls) >= 2
    /\ trimCalls[2].start_time = found[1].start_time
    /\ trimCalls[2].returned.kind = "TemporalMediaFile"

\* the values uuid.uuid4() takes in the model
Uuid4Values == 1..(3 * MaxRequests)

\* the directory of a job and the workspace of a pipeline run are different
\* directories, and neither lies inside the other
WorkspacesApart ==
    \A id, u \in Uuid4Values :
        /\ ~PathUnder(TempDirPath(u), BaseProcessingDir(id))
        /\ ~PathUnder(BaseProcessingDir(id), TempDirPath(u))

\* at most one directory of each kind is made and released in one job
OneWorkspaceEach ==
    /\ pipelineCalls <= 1
    /\ mkdirCalls <= 1
    /\ deleteCalls <= 1
    /\ rmtreeCalls <= 1
    /\ wsExists => jobDirExists \/ rmtreeCalls = 1

\* the job's directory is made before the pipeline's workspace, and the
\* pipeline's workspace is released (delete_dir is called on it) before the
\* job's directory is (shutil.rmtree is called on it)
NestedLifetimes ==
    /\ (jobDirExists' /\ ~jobDirExists) => (jpc = "job_start" /\ mkdirCalls = 0)
    /\ mkdirCalls' # mkdirCalls => (jobDirExists /\ rmtreeCalls = 0)
    /\ deleteCalls' # deleteCalls => (wsCreated /\ jobDirExists /\ rmtreeCalls = 0)
    /\ rmtreeCalls' # rmtreeCalls =>
          /\ pc \in {"idle", "done"}
          /\ wsCreated => deleteCalls = 1

PipelineReleaseOfAbsent == pc = "cleanup" /\ pc' = "done" /\ ~wsExists

\* the finally clause of the job met an absent job directory
JobReleaseOfAbsent == jpc = "job_cleanup" /\ jpc' = "job_done" /\ ~jobDirExists

PipelineReturnedAbsent == pc = "done" /\ ~raised /\ result = "None"

\* C40: when the Pipeline returns the absent result in a job, the job neither
\* publishes nor deletes anything at the output path: upload_file_to_s3 and
\* os.remove are never called, and a file already there (such as the part a
\* failed concatenation wrote) is left untouched.
C40_AbsentResultLeavesOutput ==
    /\ [](PipelineReturnedAbsent =>
             /\ uploadCalls = <<>>
             /\ published = {}
             /\ removeCalls = 0)
    /\ [][PipelineReturnedAbsent => outFile' = outFile]_vars

\* a finished job whose concatenation failed after it wrote a part of the
\* output: the part is still there
C40_Witness ==
    /\ JobFinished
    /\ PipelineReturnedAbsent
    /\ concatCalls # <<>>
    /\ outFile = "partial"

\* the job ends only through its finally clause, which removes the job's
\* directory if it is there
EndsThroughCleanup ==
    (jpc' = "job_done" /\ jpc # "job_done") =>
        /\ jpc = "job_cleanup"
        /\ jobDirExists => rmtreeCalls' = rmtreeCalls + 1

\* the loop over the selected clips never runs more iterations than there are
\* selected clips, and has run exactly that many when it ends
LoopBounded ==
    /\ i <= Len(selected_clips)
    /\ Len(trimCalls) <= Len(selected_clips)
    /\ pc = "concat" => i = Len(selected_clips)

\* C36: every scheduled job eventually terminates, by completion or by
\* failure, with its cleanup step executed, provided each collaborator call
\* returns or raises; the loop over the selected clips, the only loop, performs
\* a bounded number of iterations, equal to the number of selected clips when
\* it runs to its end.
C36_JobTerminates ==
    /\ <>JobFinished
    /\ [][EndsThroughCleanup]_vars
    /\ []LoopBounded

\* a finished job whose loop went over a full selection
C36_Witness ==
    /\ JobFinished
    /\ rmtreeCalls = 1
    /\ Len(selected_clips) = MaxClips
    /\ i = Len(selected_clips)

\* C33: jobs execute in parallel: while one scheduled job is occupied in a
\* blocking collaborator call, another job can be scheduled, can start and can
\* make progress, so that stages of different jobs interleave: a request that
\* arrives is served, and a job that is scheduled can take its next step.
C33_JobsRunInParallel ==
    \A j \in 1..Len(tasks) :
        Occupied(j) =>
            /\ Len(requests) < MaxRequests => ENABLED LoopCreateTrailer
            /\ \A k \in 1..Len(tasks) :
                  (k # j /\ tasks[k].tpc = "scheduled") => ENABLED LoopTaskStep(k)

\* the jobs of one server process run one after the other: two jobs are never
\* both between their first statement and their return
C33_JobsRunSerially ==
    \A j, k \in 1..Len(tasks) : (Occupied(j) /\ Occupied(k)) => j = k

TypeOK ==
    /\ pc \in {"validate_source", "validate_output", "make_base_dir",
               "make_temp_dir", "transcribe", "find_clips", "trim", "concat",
               "cleanup", "done"}
    /\ result \in {"unset", "None", "VideoFile"}
    /\ Len(found) <= MaxClips
    /\ i \in 0..MaxClips
====
